---- MODULE Spec2Model ----
(***************************************************************************)
(* TINL interpreter (main.cpp): the binder that turns a token stream into  *)
(* the AST arena, and the partial-evaluating tree walker eval() with its   *)
(* in-place rewrites (literal folding, dead-branch elision, inlining).     *)
(*                                                                         *)
(* Handles are the 0-based arena indices of the source; the arena is the   *)
(* sequence tree, so handle h is tree[h + 1].  f32 payloads are exact      *)
(* rationals <<n, d>> in lowest terms: zero keeps its sign, d = 0 encodes  *)
(* the infinities and NaN, and rounding to 24 bits is not modelled.        *)
(***************************************************************************)
EXTENDS Integers, Sequences, FiniteSets, TLC

\* ------------------------------------------------------------------ bounds
MaxFib == 3
MaxNodes == 200
MaxArgs == 4
MaxTail == 2

\* --------------------------------------------------------- program constants
nullidx == -1
INTRIN_PLUS == -2
INTRIN_MINUS == -3
INTRIN_MUL == -4
INTRIN_DIV == -5
INTRIN_IFZERO == -6
INTRIN_IFNEG == -7
INTRIN_PRINT == -8
INTRIN_READ_I32 == -9
INTRIN_READ_F32 == -10
max_ssize == 2147483647

\* ----------------------------------------------------------------- numbers
Abs(x) == IF x < 0 THEN -x ELSE x

RECURSIVE GCD(_, _)
GCD(a, b) == IF b = 0 THEN a ELSE GCD(b, a % b)

\* a float as a reduced fraction n/d with d > 0; zero keeps its sign as <<0, 1>> or <<0, -1>>;
\* <<1, 0>> and <<-1, 0>> are the infinities and <<0, 0>> is NaN
FSign(f) == IF f[1] > 0 THEN 1 ELSE IF f[1] < 0 THEN -1 ELSE IF f[2] < 0 THEN -1 ELSE 1
FNaN == << 0, 0 >>
FInf(s) == << s, 0 >>
FZeroOf(s) == << 0, s >>
FZero == << 0, 1 >>
IsNaN(f) == f[2] = 0 /\ f[1] = 0
IsInf(f) == f[2] = 0 /\ f[1] # 0
IsZero(f) == f[1] = 0 /\ f[2] # 0

Rat(n, d) ==
    IF n = 0 THEN FZeroOf(IF d < 0 THEN -1 ELSE 1)
    ELSE LET g == GCD(Abs(n), Abs(d))
             s == IF d < 0 THEN -1 ELSE 1
         IN << (s * n) \div g, (s * d) \div g >>

\* float(int32_t)
FloatOfI32(i) == << i, 1 >>

\* TruncDiv that rounds toward minus infinity
TruncDiv_Floor(a, b) == a \div b

\* int32_t operators of the host; division truncates toward zero
TruncDiv(a, b) ==
    IF (a < 0) = (b < 0) THEN Abs(a) \div Abs(b) ELSE -(Abs(a) \div Abs(b))

binop_i32(op, a, b) ==
    CASE op = INTRIN_PLUS -> a + b
      [] op = INTRIN_MINUS -> a - b
      [] op = INTRIN_MUL -> a * b
      [] op = INTRIN_DIV -> TruncDiv(a, b)

\* IEEE-754 operators on the fractions
FNeg(f) == IF IsNaN(f) THEN f ELSE IF IsZero(f) THEN FZeroOf(-f[2]) ELSE << -f[1], f[2] >>

FAdd(a, b) ==
    IF IsNaN(a) \/ IsNaN(b) THEN FNaN
    ELSE IF IsInf(a) /\ IsInf(b) THEN (IF a[1] = b[1] THEN a ELSE FNaN)
    ELSE IF IsInf(a) THEN a
    ELSE IF IsInf(b) THEN b
    ELSE IF IsZero(a) /\ IsZero(b) THEN (IF FSign(a) = FSign(b) THEN a ELSE FZero)
    ELSE IF IsZero(a) THEN b
    ELSE IF IsZero(b) THEN a
    ELSE Rat(a[1] * b[2] + b[1] * a[2], a[2] * b[2])

FMul(a, b) ==
    IF IsNaN(a) \/ IsNaN(b) THEN FNaN
    ELSE IF (IsInf(a) /\ IsZero(b)) \/ (IsZero(a) /\ IsInf(b)) THEN FNaN
    ELSE IF IsInf(a) \/ IsInf(b) THEN FInf(FSign(a) * FSign(b))
    ELSE IF IsZero(a) \/ IsZero(b) THEN FZeroOf(FSign(a) * FSign(b))
    ELSE Rat(a[1] * b[1], a[2] * b[2])

FDiv(a, b) ==
    IF IsNaN(a) \/ IsNaN(b) THEN FNaN
    ELSE IF (IsInf(a) /\ IsInf(b)) \/ (IsZero(a) /\ IsZero(b)) THEN FNaN
    ELSE IF IsInf(a) \/ IsZero(b) THEN FInf(FSign(a) * FSign(b))
    ELSE IF IsInf(b) \/ IsZero(a) THEN FZeroOf(FSign(a) * FSign(b))
    ELSE Rat(a[1] * b[2], a[2] * b[1])

binop_f32(op, a, b) ==
    CASE op = INTRIN_PLUS -> FAdd(a, b)
      [] op = INTRIN_MINUS -> FAdd(a, FNeg(b))
      [] op = INTRIN_MUL -> FMul(a, b)
      [] op = INTRIN_DIV -> FDiv(a, b)

\* ------------------------------------------------------------------ tokens
Tok(k) == [token |-> k, name |-> "", i32 |-> 0, f32 |-> FZero]
LP == Tok("TOKEN_PARENTHESIS_L")
RP == Tok("TOKEN_PARENTHESIS_R")
I(n) == [token |-> "TOKEN_LITERAL_I32", name |-> "", i32 |-> n, f32 |-> FZero]
F(n, d) == [token |-> "TOKEN_LITERAL_F32", name |-> "", i32 |-> 0, f32 |-> Rat(n, d)]
Id(s) == [token |-> "TOKEN_IDENTIFIER", name |-> s, i32 |-> 0, f32 |-> FZero]
Kw(k, s) == [token |-> k, name |-> s, i32 |-> 0, f32 |-> FZero]
DEFUN == Kw("TOKEN_DEFUN", "defun")
LETK == Kw("TOKEN_LET", "let")
PLUS == Kw("TOKEN_PLUS", "+")
MINUS == Kw("TOKEN_MINUS", "-")
MUL == Kw("TOKEN_MUL", "*")
DIV == Kw("TOKEN_DIV", "/")
IFZERO == Kw("TOKEN_IFZERO", "ifzero")
IFNEG == Kw("TOKEN_IFNEG", "ifneg")
PRINT == Kw("TOKEN_PRINT", "print")
READI32 == Kw("TOKEN_READ_I32", "readi32")
READF32 == Kw("TOKEN_READ_F32", "readf32")

\* 0-based access, as tokens[i] and tree[i] in the source
T(tokens, i) == tokens[i + 1]
N(tree, i) == tree[i + 1]

getEvalTarget(token) ==
    CASE token = "TOKEN_PLUS" -> INTRIN_PLUS
      [] token = "TOKEN_MINUS" -> INTRIN_MINUS
      [] token = "TOKEN_MUL" -> INTRIN_MUL
      [] token = "TOKEN_DIV" -> INTRIN_DIV
      [] token = "TOKEN_IFZERO" -> INTRIN_IFZERO
      [] token = "TOKEN_IFNEG" -> INTRIN_IFNEG
      [] token = "TOKEN_PRINT" -> INTRIN_PRINT
      [] token = "TOKEN_READ_I32" -> INTRIN_READ_I32
      [] token = "TOKEN_READ_F32" -> INTRIN_READ_F32
      [] OTHER -> nullidx

\* ------------------------------------------------------------------- nodes
ASTNode(type, rtype, parent, eval, name) ==
    [type |-> type, rtype |-> rtype, parent |-> parent, eval |-> eval,
     args |-> << >>, name |-> name, i32 |-> 0, f32 |-> FZero]

isDefun(node) == node.type = "ASTNODE_LET" /\ node.name # ""
isInitialize(node) == node.type = "ASTNODE_INIT"

\* tree.push_back(newnode); tree[parent].args.push_back(newnodeIdx)
PushChild(tree, parent, newnode) ==
    LET newnodeIdx == Len(tree)
        t1 == Append(tree, newnode)
    IN [t1 EXCEPT ![parent + 1].args = Append(@, newnodeIdx)]

\* ------------------------------------------------------------------ binder
\* result of a binder step: tokens spanned (-1 on error), the arena, the diagnostic,
\* and whether an out-of-bounds read was made on the way
BindRes(span, tree, err, ub) == [span |-> span, tree |-> tree, err |-> err, ub |-> ub]

RECURSIVE MatchScan(_, _, _, _, _)
MatchScan(tokens, start, pos, end, depth) ==
    IF pos = end THEN -1
    ELSE IF T(tokens, pos).token = "TOKEN_PARENTHESIS_R"
         THEN IF depth = 0 THEN pos - start + 1
              ELSE MatchScan(tokens, start, pos + 1, end, depth - 1)
    ELSE IF T(tokens, pos).token = "TOKEN_PARENTHESIS_L"
         THEN MatchScan(tokens, start, pos + 1, end, depth + 1)
    ELSE MatchScan(tokens, start, pos + 1, end, depth)

getMatchingParentheses(tokens, start, len) ==
    MatchScan(tokens, start, start + 1, start + len, 0)

\* number of leading INIT children
RECURSIVE LeadingInits(_, _, _)
LeadingInits(tree, args, k) ==
    IF k > Len(args) THEN k - 1
    ELSE IF N(tree, args[k]).type # "ASTNODE_INIT" THEN k - 1
    ELSE LeadingInits(tree, args, k + 1)

getSubCount(countInit, parent, tree) ==
    LET args == N(tree, parent).args
        inits == LeadingInits(tree, args, 1)
    IN IF countInit THEN inits
       ELSE Cardinality({k \in (inits + 1)..Len(args) : ~isDefun(N(tree, args[k]))})

\* variant: the first INIT of the name in the arena, in scope or not
checkKnownVar_FirstInit(name, parent0, tree) ==
    LET hits == {i \in 0..(Len(tree) - 1) : N(tree, i).type = "ASTNODE_INIT" /\ N(tree, i).name = name}
    IN IF hits = {} THEN nullidx ELSE CHOOSE i \in hits : \A j \in hits : i <= j

RECURSIVE checkKnownVar(_, _, _)
checkKnownVar(name, parent0, tree) ==
    IF parent0 = nullidx THEN nullidx
    ELSE LET parent == IF N(tree, parent0).type = "ASTNODE_INIT"
                       THEN N(tree, N(tree, parent0).parent).parent
                       ELSE parent0
         IN IF parent = nullidx THEN -100 \* assert(nullidx != parent) of the backtrack
            ELSE LET args == N(tree, parent).args
                     inits == LeadingInits(tree, args, 1)
                     hits == {k \in 1..inits : N(tree, args[k]).name = name}
                 IN IF N(tree, parent).type = "ASTNODE_LET" /\ hits # {}
                    THEN args[CHOOSE k \in hits : \A j \in hits : k <= j]
                    ELSE checkKnownVar(name, N(tree, parent).parent, tree)

\* variant: the outermost definition of the name wins
RECURSIVE checkKnownDefun_Outermost(_, _, _)
checkKnownDefun_Outermost(name, parent, tree) ==
    IF parent = nullidx THEN nullidx
    ELSE LET node == N(tree, parent)
             hits == {k \in 1..Len(node.args) :
                        /\ N(tree, node.args[k]).type = "ASTNODE_LET"
                        /\ N(tree, node.args[k]).name = name}
             outer == checkKnownDefun_Outermost(name, node.parent, tree)
         IN IF outer # nullidx THEN outer
            ELSE IF node.type = "ASTNODE_LET" /\ node.name = name THEN parent
            ELSE IF node.type = "ASTNODE_LET" /\ hits # {}
                 THEN node.args[CHOOSE k \in hits : \A j \in hits : k <= j]
            ELSE nullidx

RECURSIVE checkKnownDefun(_, _, _)
checkKnownDefun(name, parent, tree) ==
    IF parent = nullidx THEN nullidx
    ELSE LET node == N(tree, parent)
             hits == {k \in 1..Len(node.args) :
                        /\ N(tree, node.args[k]).type = "ASTNODE_LET"
                        /\ N(tree, node.args[k]).name = name}
         IN IF node.type = "ASTNODE_LET" /\ node.name = name THEN parent
            ELSE IF node.type = "ASTNODE_LET" /\ hits # {}
                 THEN node.args[CHOOSE k \in hits : \A j \in hits : k <= j]
            ELSE checkKnownDefun(name, node.parent, tree)

RtypeRank(r) ==
    CASE r = "none" -> 0 [] r = "i32" -> 1 [] r = "f32" -> 2 [] r = "unknown" -> 3

RECURSIVE PromoteArgs(_, _, _, _)
PromoteArgs(tree, args, k, ret) ==
    IF k > Len(args) \/ ret = "unknown" THEN ret
    ELSE PromoteArgs(tree, args, k + 1,
            IF RtypeRank(ret) < RtypeRank(N(tree, args[k]).rtype)
            THEN N(tree, args[k]).rtype ELSE ret)

getArgsReturnType(parent, tree) ==
    LET node == N(tree, parent)
    IN IF node.args = << >> THEN "none"
       ELSE PromoteArgs(tree, node.args, 2, N(tree, node.args[1]).rtype)

getIfReturnType(parent, tree) ==
    LET node == N(tree, parent)
    IN IF Len(node.args) # 3 THEN "none"
       ELSE IF N(tree, node.args[3]).rtype # N(tree, node.args[2]).rtype THEN "unknown"
       ELSE N(tree, node.args[2]).rtype

\* expected arg count (negated when minimal), the patched arena, and whether args.front()
\* was read on an empty vector
getMinFunArgs(parent, tree) ==
    LET node == N(tree, parent)
        setr(r) == [tree EXCEPT ![parent + 1].rtype = r]
    IN CASE node.eval \in {INTRIN_PLUS, INTRIN_MINUS, INTRIN_MUL, INTRIN_DIV} ->
              [n |-> -2, tree |-> setr(getArgsReturnType(parent, tree)), ub |-> FALSE]
         [] node.eval \in {INTRIN_IFZERO, INTRIN_IFNEG} ->
              [n |-> 3, tree |-> setr(getIfReturnType(parent, tree)), ub |-> FALSE]
         [] node.eval = INTRIN_PRINT ->
              IF node.args = << >>
              THEN [n |-> 1, tree |-> tree, ub |-> TRUE]
              ELSE [n |-> 1, tree |-> setr(N(tree, node.args[1]).rtype), ub |-> FALSE]
         [] node.eval = INTRIN_READ_I32 -> [n |-> 0, tree |-> setr("i32"), ub |-> FALSE]
         [] node.eval = INTRIN_READ_F32 -> [n |-> 0, tree |-> setr("f32"), ub |-> FALSE]
         [] OTHER ->
              LET defunIdx == checkKnownDefun(node.name, node.parent, tree)
              IN IF defunIdx = nullidx
                 THEN [n |-> max_ssize, tree |-> tree, ub |-> FALSE]
                 ELSE [n |-> getSubCount(TRUE, defunIdx, tree),
                       tree |-> [tree EXCEPT ![parent + 1].rtype = N(tree, defunIdx).rtype,
                                             ![parent + 1].eval = defunIdx],
                       ub |-> FALSE]

\* the parameter loop of getNodeDefun
RECURSIVE DefunArgs(_, _, _, _, _)
DefunArgs(tokens, start_it, span_it, parent, tree) ==
    IF span_it = 0 THEN BindRes(0, tree, << >>, FALSE)
    ELSE IF T(tokens, start_it).token # "TOKEN_IDENTIFIER"
         THEN BindRes(-1, tree, << "invalid defun-arg" >>, FALSE)
    ELSE DefunArgs(tokens, start_it + 1, span_it - 1, parent,
            PushChild(tree, parent,
                ASTNode("ASTNODE_INIT", "unknown", parent, Len(tree), T(tokens, start_it).name)))

\* a local of the source, `const T v = e;`: the rest of the function, applied to the value of e,
\* which is computed once
Given(v, Rest(_)) == CHOOSE y \in {Rest(x) : x \in {v}} : TRUE

getNodeDefun(tokens, start, len, parent, tree) ==
    IF T(tokens, start + 1).token # "TOKEN_PARENTHESIS_L"
    THEN BindRes(-1, tree, << "invalid defun" >>, FALSE)
    ELSE Given(getMatchingParentheses(tokens, start + 1, len - 1), LAMBDA span :
         IF span = -1 THEN BindRes(-1, tree, << "invalid defun" >>, FALSE)
         ELSE Given(DefunArgs(tokens, start + 2, span - 2, parent, tree), LAMBDA r :
              IF r.span = -1 THEN r ELSE BindRes(span + 1, r.tree, << >>, FALSE)))

RECURSIVE getNode(_, _, _, _, _), getNodeLet(_, _, _, _, _), LetInits(_, _, _, _, _), SubExprs(_, _, _, _, _, _)

\* the var-init loop of getNodeLet
LetInits(tokens, start_it, span_it, parent, tree) ==
    IF span_it = 0 THEN BindRes(0, tree, << >>, FALSE)
    ELSE IF \/ 4 > span_it
            \/ T(tokens, start_it).token # "TOKEN_PARENTHESIS_L"
            \/ T(tokens, start_it + 1).token # "TOKEN_IDENTIFIER"
         THEN BindRes(-1, tree, << "invalid var-init" >>, FALSE)
    ELSE Given(getMatchingParentheses(tokens, start_it, span_it), LAMBDA subspan :
         IF subspan = -1 THEN BindRes(-1, tree, << "invalid var-init" >>, FALSE)
         ELSE Given(IF subspan - 3 = 0
                    THEN BindRes(-1, tree, << "assert(len)" >>, FALSE)
                    ELSE getNode(tokens, start_it + 2, subspan - 3, Len(tree),
                                 PushChild(tree, parent,
                                     ASTNode("ASTNODE_INIT", "none", parent, Len(tree),
                                             T(tokens, start_it + 1).name))),
                    LAMBDA r :
              IF r.err = << "assert(len)" >> THEN r
              ELSE IF r.span # subspan - 3
                   THEN BindRes(-1, r.tree, Append(r.err, "invalid var-init"), r.ub)
              ELSE Given(LetInits(tokens, start_it + 2 + r.span + 1, span_it - subspan, parent,
                                  [r.tree EXCEPT ![Len(tree) + 1].rtype =
                                      N(r.tree, N(r.tree, Len(tree)).args[1]).rtype]),
                         LAMBDA rest : BindRes(rest.span, rest.tree, rest.err, r.ub \/ rest.ub))))

getNodeLet(tokens, start, len, parent, tree) ==
    Given(getMatchingParentheses(tokens, start, len), LAMBDA span :
    IF span = -1 THEN BindRes(-1, tree, << "invalid let" >>, FALSE)
    ELSE Given(LetInits(tokens, start + 1, span - 2, parent, tree), LAMBDA r :
         IF r.span = -1 THEN r ELSE BindRes(span, r.tree, << >>, r.ub)))

\* the sub-expression loop of getNode
SubExprs(tokens, start_it, span_it, newnodeIdx, tree, ub) ==
    IF span_it = 0 THEN BindRes(0, tree, << >>, ub)
    ELSE Given(getNode(tokens, start_it, span_it, newnodeIdx, tree), LAMBDA r :
         IF r.span = -1 THEN BindRes(-1, r.tree, r.err, ub \/ r.ub)
         ELSE SubExprs(tokens, start_it + r.span, span_it - r.span, newnodeIdx, r.tree, ub \/ r.ub))

\* the arity / return-type verification that closes a parenthesized form
VerifyNode(span, newnodeIdx, tree, ub) ==
    LET node == N(tree, newnodeIdx)
    IN CASE node.type = "ASTNODE_LET" ->
              IF getSubCount(FALSE, newnodeIdx, tree) = 0
              THEN BindRes(-1, tree, << "invalid let/defun" >>, ub)
              ELSE LET last == CHOOSE k \in 1..Len(node.args) :
                                  /\ ~isDefun(N(tree, node.args[k]))
                                  /\ \A j \in (k + 1)..Len(node.args) : isDefun(N(tree, node.args[j]))
                   IN BindRes(span, [tree EXCEPT ![newnodeIdx + 1].rtype = N(tree, node.args[last]).rtype], << >>, ub)
         [] node.type = "ASTNODE_EVAL_FUN" ->
              Given(getSubCount(FALSE, newnodeIdx, tree), LAMBDA subcount :
              Given(getMinFunArgs(newnodeIdx, tree), LAMBDA fa :
                 IF fa.n = max_ssize
                 THEN BindRes(-1, fa.tree, << "unknown function call" >>, ub \/ fa.ub)
                 ELSE IF (IF 0 <= fa.n THEN subcount # fa.n ELSE subcount < -fa.n)
                      THEN BindRes(-1, fa.tree, << "invalid function call" >>, ub \/ fa.ub)
                 ELSE BindRes(span, fa.tree, << >>, ub \/ fa.ub)))
         [] OTHER -> BindRes(span, tree, << >>, ub)

\* the head of a parenthesized form: the node it opens and the tokens it takes
\* variant: a defun may stand anywhere
MisplacedDefun_Never(parent, tree) == FALSE

\* 'defun' statements are disallowed anywhere but in 'let' expressions
MisplacedDefun(parent, tree) == N(tree, parent).type # "ASTNODE_LET"

OpenNode(tokens, start_it, span_it, parent, tree) ==
    LET head == T(tokens, start_it)
        newnodeIdx == Len(tree)
    IN CASE head.token = "TOKEN_DEFUN" ->
              IF MisplacedDefun(parent, tree)
              THEN BindRes(-1, tree, << "misplaced defun" >>, FALSE)
              ELSE IF 5 > span_it \/ T(tokens, start_it + 1).token # "TOKEN_IDENTIFIER"
                   THEN BindRes(-1, tree, << "invalid defun" >>, FALSE)
              ELSE Given(getNodeDefun(tokens, start_it + 1, span_it - 1, newnodeIdx,
                            PushChild(tree, parent,
                                ASTNode("ASTNODE_LET", "unknown", parent, 0, T(tokens, start_it + 1).name))),
                         LAMBDA r : IF r.span = -1 THEN r ELSE BindRes(1 + r.span, r.tree, << >>, r.ub))
         [] head.token = "TOKEN_LET" ->
              IF 4 > span_it \/ T(tokens, start_it + 1).token # "TOKEN_PARENTHESIS_L"
              THEN BindRes(-1, tree, << "invalid let" >>, FALSE)
              ELSE Given(getNodeLet(tokens, start_it + 1, span_it - 1, newnodeIdx,
                            PushChild(tree, parent, ASTNode("ASTNODE_LET", "none", parent, 0, ""))),
                         LAMBDA r : IF r.span = -1 THEN r ELSE BindRes(1 + r.span, r.tree, << >>, r.ub))
         [] head.token \in {"TOKEN_PLUS", "TOKEN_MINUS", "TOKEN_MUL", "TOKEN_DIV",
                            "TOKEN_IFZERO", "TOKEN_IFNEG", "TOKEN_PRINT",
                            "TOKEN_READ_I32", "TOKEN_READ_F32", "TOKEN_IDENTIFIER"} ->
              BindRes(1, PushChild(tree, parent,
                   ASTNode("ASTNODE_EVAL_FUN", "none", parent, getEvalTarget(head.token), head.name)),
                   << >>, FALSE)
         [] OTHER -> BindRes(-1, tree, << "unexpected token" >>, FALSE)

getNode(tokens, start, len, parent, tree) ==
    LET tk == T(tokens, start)
        newnodeIdx == Len(tree)
    IN IF tk.token = "TOKEN_PARENTHESIS_R" THEN BindRes(-1, tree, << "stray right parentesis" >>, FALSE)
       ELSE IF tk.token = "TOKEN_PARENTHESIS_L" THEN
         Given(getMatchingParentheses(tokens, start, len), LAMBDA span :
            IF span = -1 THEN BindRes(-1, tree, << "stray left parentesis" >>, FALSE)
            ELSE IF span = 2 THEN BindRes(-1, tree, << "empty parenteses" >>, FALSE)
            ELSE Given(OpenNode(tokens, start + 1, span - 2, parent, tree), LAMBDA opened :
                 IF opened.span = -1 THEN opened
                 ELSE Given(SubExprs(tokens, start + 1 + opened.span, span - 2 - opened.span,
                                     newnodeIdx, opened.tree, opened.ub),
                            LAMBDA subs : IF subs.span = -1 THEN subs
                                          ELSE VerifyNode(span, newnodeIdx, subs.tree, subs.ub))))
       ELSE
         CASE tk.token = "TOKEN_LITERAL_I32" ->
                BindRes(1, PushChild(tree, parent,
                    [ASTNode("ASTNODE_LITERAL", "i32", parent, 0, "") EXCEPT !.i32 = tk.i32]), << >>, FALSE)
           [] tk.token = "TOKEN_LITERAL_F32" ->
                BindRes(1, PushChild(tree, parent,
                    [ASTNode("ASTNODE_LITERAL", "f32", parent, 0, "") EXCEPT !.f32 = tk.f32]), << >>, FALSE)
           [] tk.token = "TOKEN_IDENTIFIER" ->
                Given(checkKnownVar(tk.name, parent, tree), LAMBDA initIdx :
                   IF initIdx = -100 THEN BindRes(-1, tree, << "assert(nullidx != parent)" >>, TRUE)
                   ELSE IF initIdx = nullidx THEN BindRes(-1, tree, << "unknown var" >>, FALSE)
                   ELSE BindRes(1, PushChild(tree, parent,
                            ASTNode("ASTNODE_EVAL_VAR", N(tree, initIdx).rtype, parent, initIdx, tk.name)),
                            << >>, FALSE))
           [] OTHER -> BindRes(-1, tree, << "unexpected token" >>, FALSE)

\* the top-level loop of main over the token stream
RECURSIVE BindAll(_, _, _, _, _)
BindAll(tokens, start_it, len_it, tree, ub) ==
    IF len_it = 0 THEN BindRes(0, tree, << >>, ub)
    ELSE Given(getNode(tokens, start_it, len_it, 0, tree), LAMBDA r :
         IF r.span = -1 THEN BindRes(-1, r.tree, r.err, ub \/ r.ub)
         ELSE BindAll(tokens, start_it + r.span, len_it - r.span, r.tree, ub \/ r.ub))

RootNode == ASTNode("ASTNODE_LET", "none", nullidx, 0, "")

\* main, from the token stream to the bound arena and the root check
BindProgram(tokens) ==
    Given(BindAll(tokens, 0, Len(tokens), << RootNode >>, FALSE), LAMBDA r :
       IF r.span = -1 THEN r
       ELSE IF getSubCount(FALSE, 0, r.tree) = 0
            THEN BindRes(-1, r.tree, << "root expression does not return" >>, r.ub)
       ELSE r)


\* --------------------------------------------------------------- evaluator
Value(type, literal, sidefx, incoh, i32, f32) ==
    [type |-> type, literal |-> literal, sidefx |-> sidefx, incoh |-> incoh, i32 |-> i32, f32 |-> f32]

NoValue == Value("none", FALSE, FALSE, FALSE, 0, FZero)

RECURSIVE copySubtree(_, _, _)
RECURSIVE CopyArgs(_, _, _, _)
\* the loop of copySubtree over the children of the source node
CopyArgs(srcArgs, k, dstIdx, tree) ==
    IF k > Len(srcArgs) THEN tree
    ELSE LET newnodeIdx == Len(tree)
             newnode == [N(tree, srcArgs[k]) EXCEPT !.parent = dstIdx, !.args = << >>]
             t1 == PushChild(tree, dstIdx, newnode)
         IN Given(copySubtree(srcArgs[k], newnodeIdx, t1), LAMBDA t2 :
               CopyArgs(srcArgs, k + 1, dstIdx, t2))

copySubtree(srcIdx, dstIdx, tree) == CopyArgs(N(tree, srcIdx).args, 1, dstIdx, tree)

RECURSIVE SubtreeSize(_, _)
SubtreeSize(tree, idx) ==
    LET args == N(tree, idx).args
        RECURSIVE Sum(_)
        Sum(k) == IF k > Len(args) THEN 0 ELSE SubtreeSize(tree, args[k]) + Sum(k + 1)
    IN 1 + Sum(1)

\* position of oldIdx in the parent's args, 0 when the scan reaches end()
FindChild(oldIdx, parent, tree) ==
    LET args == N(tree, parent).args
        hits == {k \in 1..Len(args) : args[k] = oldIdx}
    IN IF hits = {} THEN 0 ELSE CHOOSE k \in hits : \A j \in hits : k <= j

replaceChild(oldIdx, newIdx, parent, tree) ==
    LET k == FindChild(oldIdx, parent, tree)
    IN IF k = 0 THEN tree ELSE [tree EXCEPT ![parent + 1].args[k] = newIdx]

\* FoldNode that leaves a LET as it is
FoldNode_KeepLet(index, ret, tree) ==
    IF index # 0 /\ ~isInitialize(N(tree, index)) /\ N(tree, index).type # "ASTNODE_LET"
       /\ ret.literal /\ ~ret.sidefx
    THEN [tree EXCEPT ![index + 1] =
            [ASTNode("ASTNODE_LITERAL", ret.type, N(tree, index).parent, 0, "")
                EXCEPT !.i32 = IF ret.type = "i32" THEN ret.i32 ELSE 0,
                       !.f32 = IF ret.type = "f32" THEN ret.f32 ELSE FZero]]
    ELSE [tree EXCEPT ![index + 1].rtype = IF ret.incoh THEN "unknown" ELSE ret.type]

\* FoldNode that records the type of the value whether it is coherent or not
FoldNode_TypeOnly(index, ret, tree) ==
    IF index # 0 /\ ~isInitialize(N(tree, index)) /\ ret.literal /\ ~ret.sidefx
    THEN [tree EXCEPT ![index + 1] =
            [ASTNode("ASTNODE_LITERAL", ret.type, N(tree, index).parent, 0, "")
                EXCEPT !.i32 = IF ret.type = "i32" THEN ret.i32 ELSE 0,
                       !.f32 = IF ret.type = "f32" THEN ret.f32 ELSE FZero]]
    ELSE [tree EXCEPT ![index + 1].rtype = ret.type]

\* FoldNode that collapses every node into an i32 literal
FoldNode_AsI32(index, ret, tree) ==
    IF index # 0 /\ ~isInitialize(N(tree, index)) /\ ret.literal /\ ~ret.sidefx
    THEN [tree EXCEPT ![index + 1] =
            [ASTNode("ASTNODE_LITERAL", "i32", N(tree, index).parent, 0, "")
                EXCEPT !.i32 = ret.i32, !.f32 = FZero]]
    ELSE [tree EXCEPT ![index + 1].rtype = IF ret.incoh THEN "unknown" ELSE ret.type]

\* FoldNode that collapses an INIT like any other node
FoldNode_FoldsInit(index, ret, tree) ==
    IF index # 0 /\ ret.literal /\ ~ret.sidefx
    THEN [tree EXCEPT ![index + 1] =
            [ASTNode("ASTNODE_LITERAL", ret.type, N(tree, index).parent, 0, "")
                EXCEPT !.i32 = IF ret.type = "i32" THEN ret.i32 ELSE 0,
                       !.f32 = IF ret.type = "f32" THEN ret.f32 ELSE FZero]]
    ELSE [tree EXCEPT ![index + 1].rtype = IF ret.incoh THEN "unknown" ELSE ret.type]

\* the tail of eval: collapse the node into a literal, or record the type it returned
FoldNode(index, ret, tree) ==
    IF index # 0 /\ ~isInitialize(N(tree, index)) /\ ret.literal /\ ~ret.sidefx
    THEN [tree EXCEPT ![index + 1] =
            [ASTNode("ASTNODE_LITERAL", ret.type, N(tree, index).parent, 0, "")
                EXCEPT !.i32 = IF ret.type = "i32" THEN ret.i32 ELSE 0,
                       !.f32 = IF ret.type = "f32" THEN ret.f32 ELSE FZero]]
    ELSE [tree EXCEPT ![index + 1].rtype = IF ret.incoh THEN "unknown" ELSE ret.type]

\* SelectBranch that never takes the first branch
SelectBranch_Else(target, pred) == 2

\* SelectBranch with the test of ifneg turned around
SelectBranch_Flipped(target, pred) ==
    LET holds == IF target = INTRIN_IFZERO
                 THEN (IF pred.type = "f32" THEN IsZero(pred.f32)
                       ELSE 0 = pred.i32)
                 ELSE (IF pred.type = "f32" THEN 0 < pred.f32[1]
                       ELSE 0 < pred.i32)
    IN IF holds THEN 1 ELSE 2

\* the branch index chosen by evalIf<PREDOP_I32, PREDOP_F32> for a predicate value
SelectBranch(target, pred) ==
    LET holds == IF target = INTRIN_IFZERO
                 THEN (IF pred.type = "f32" THEN IsZero(pred.f32)
                       ELSE 0 = pred.i32)
                 ELSE (IF pred.type = "f32" THEN 0 > pred.f32[1]
                       ELSE 0 > pred.i32)
    IN IF holds THEN 1 ELSE 2

\* ArithStep that keeps an i32 accumulator at i32 whatever the argument
ArithStep_NoPromotion(op, acc, arg) ==
    IF ~acc.isF32
    THEN IF arg.type = "f32"
         THEN [isF32 |-> FALSE, i32 |-> acc.i32, f32 |-> acc.f32]
         ELSE [isF32 |-> FALSE, i32 |-> binop_i32(op, acc.i32, arg.i32), f32 |-> acc.f32]
    ELSE IF arg.type = "i32"
         THEN [isF32 |-> TRUE, i32 |-> acc.i32, f32 |-> binop_f32(op, acc.f32, FloatOfI32(arg.i32))]
         ELSE [isF32 |-> TRUE, i32 |-> acc.i32, f32 |-> binop_f32(op, acc.f32, arg.f32)]

\* one accumulation step of evalArith; acc is [isF32, i32, f32]
ArithStep(op, acc, arg) ==
    IF ~acc.isF32
    THEN IF arg.type = "f32"
         THEN [isF32 |-> TRUE, i32 |-> acc.i32, f32 |-> binop_f32(op, FloatOfI32(acc.i32), arg.f32)]
         ELSE [isF32 |-> FALSE, i32 |-> binop_i32(op, acc.i32, arg.i32), f32 |-> acc.f32]
    ELSE IF arg.type = "i32"
         THEN [isF32 |-> TRUE, i32 |-> acc.i32, f32 |-> binop_f32(op, acc.f32, FloatOfI32(arg.i32))]
         ELSE [isF32 |-> TRUE, i32 |-> acc.i32, f32 |-> binop_f32(op, acc.f32, arg.f32)]

\* the integer division of the host traps on a zero divisor
TrapsI32(op, acc, arg) == op = INTRIN_DIV /\ ~acc.isF32 /\ arg.type = "i32" /\ arg.i32 = 0

\* the line print writes: "%d\n" of the i32 or "%f\n" of the f32
PrintLine(v) ==
    IF v.type = "f32" THEN [fmt |-> "%f", i32 |-> 0, f32 |-> v.f32]
    ELSE [fmt |-> "%d", i32 |-> v.i32, f32 |-> FZero]

\* the value returned by a read node
ReadValue(target, item) ==
    IF target = INTRIN_READ_I32 THEN Value("i32", FALSE, FALSE, FALSE, item, FZero)
    ELSE Value("f32", FALSE, FALSE, FALSE, 0, FloatOfI32(item))

\* top-down scan of the var stack; 0 when the scan reaches rend()
FindVar(stack, name) ==
    LET hits == {k \in 1..Len(stack) : stack[k].name = name}
    IN IF hits = {} THEN 0 ELSE CHOOSE k \in hits : \A j \in hits : k >= j

\* an activation of eval: its node, where it stands, its locals, and what it has evaluated so
\* far: the values of its children (argvals) and, for a LET, their positions (kids)
Frame(index, stackRestore) ==
    [idx |-> index, pc |-> "enter", kind |-> "", stackRestore |-> stackRestore,
     it |-> 0, ret |-> NoValue, literal |-> FALSE, sidefx |-> FALSE, incoh |-> FALSE,
     acc |-> [isF32 |-> FALSE, i32 |-> 0, f32 |-> FZero], branch |-> 0, target |-> 0,
     aux |-> nullidx, argvals |-> << >>, kids |-> << >>]

ArithTargets == {INTRIN_PLUS, INTRIN_MINUS, INTRIN_MUL, INTRIN_DIV}
IfTargets == {INTRIN_IFZERO, INTRIN_IFNEG}
ReadTargets == {INTRIN_READ_I32, INTRIN_READ_F32}

\* what eval's switch dispatches a node to
KindOf(node) ==
    CASE node.type = "ASTNODE_LET" -> "let"
      [] node.type = "ASTNODE_INIT" -> "init"
      [] node.type = "ASTNODE_EVAL_VAR" -> "var"
      [] node.type = "ASTNODE_LITERAL" -> "literal"
      [] node.type = "ASTNODE_EVAL_FUN" ->
            IF node.eval \in ArithTargets THEN "arith"
            ELSE IF node.eval \in IfTargets THEN "if"
            ELSE IF node.eval = INTRIN_PRINT THEN "print"
            ELSE IF node.eval \in ReadTargets THEN "read"
            ELSE "call"


\* ------------------------------------------------------------------- state
VARIABLES
    buffer,     \* the bytes of the source text that tokenize scans, one character each
    str,        \* tokenize's position in buffer
    tokens,     \* the token stream handed to the binder
    readCount,  \* bytes fread by main
    input,      \* what stdin holds for readi32 / readf32
    inpos,      \* how many items of input were consumed
    tree,       \* the arena
    bound,      \* the arena as the binder left it
    stack,      \* the var stack
    cstack,     \* the activations of eval, innermost last
    retreg,     \* the value register: what the last eval returned, until the caller takes it
    out,        \* the lines written by print
    status,     \* where main stands
    err,        \* the diagnostics written for a rejected program, in order
    run,        \* 1 for the run of main, 2 for a second eval of the rewritten root
    snap,       \* arena, value and output at the end of the first run
    visited,    \* the nodes eval was entered for in this run, in order
    iflog       \* for every evalIf that chose a branch in this run: the choice

vars == << buffer, str, tokens, readCount, input, inpos, tree, bound, stack, cstack, retreg, out, status, err,
           run, snap, visited, iflog >>

NoRet == [idx |-> nullidx, kind |-> "", target |-> 0, val |-> NoValue, aux |-> nullidx, argvals |-> << >>]
NoSnap == [tree |-> << >>, val |-> NoValue, out |-> << >>, inpos |-> 0]

top == cstack[Len(cstack)]
node == N(tree, top.idx)
Running == status = "eval" /\ cstack # << >>
At(pc) == Running /\ top.pc = pc
Entering(kind) == At("enter") /\ KindOf(node) = kind

SetTop(f) == [cstack EXCEPT ![Len(cstack)] = f]
\* eval(child, tree, stack) from the activation f
Call(f, child) == Append(SetTop(f), Frame(child, Len(stack)))
Entered == [top EXCEPT !.kind = KindOf(node), !.target = node.eval]
Pop == SubSeq(cstack, 1, Len(cstack) - 1)

\* eval returns val from the top activation
Return(f, val) ==
    /\ cstack' = Pop
    /\ retreg' = [idx |-> f.idx, kind |-> f.kind, target |-> f.target, val |-> val,
                  aux |-> f.aux, argvals |-> f.argvals]
    /\ status' = IF Len(cstack) = 1 THEN "done" ELSE status

Halt(how) ==
    /\ status' = how
    /\ UNCHANGED << buffer, str, tokens, readCount, input, bound, inpos, tree, stack, cstack, retreg, out, err,
                    run, snap, visited, iflog >>


\* ------------------------------------------------------------ eval: LET
EvalLet ==
    /\ Entering("let")
    /\ cstack' = SetTop([Entered EXCEPT !.pc = "let_init", !.it = 0, !.sidefx = FALSE])
    /\ visited' = Append(visited, top.idx)
    /\ UNCHANGED << buffer, str, tokens, readCount, input, bound, inpos, tree, stack, retreg, out, status, err, run, snap, iflog >>

LetInit ==
    /\ At("let_init")
    /\ top.it < Len(node.args)
    /\ isInitialize(N(tree, node.args[top.it + 1]))
    /\ cstack' = Call([top EXCEPT !.pc = "let_init_ret", !.kids = Append(@, top.it + 1)],
                       node.args[top.it + 1])
    /\ UNCHANGED << buffer, str, tokens, readCount, input, bound, inpos, tree, stack, retreg, out, status, err, run, snap, visited, iflog >>

LetInitRet ==
    /\ At("let_init_ret")
    /\ cstack' = SetTop([top EXCEPT !.pc = "let_init", !.it = @ + 1, !.ret = retreg.val,
                                    !.sidefx = @ \/ retreg.val.sidefx,
                                    !.argvals = Append(@, retreg.val)])
    /\ retreg' = NoRet
    /\ UNCHANGED << buffer, str, tokens, readCount, input, bound, inpos, tree, stack, out, status, err, run, snap, visited, iflog >>

\* de-anonymize the frames pushed by this LET's INITs
NameFrames(st, restore, args, tr) ==
    [k \in 1..Len(st) |->
        IF k > restore THEN [st[k] EXCEPT !.name = N(tr, args[k - restore]).eval] ELSE st[k]]

LetNames ==
    /\ At("let_init")
    /\ ~(top.it < Len(node.args) /\ isInitialize(N(tree, node.args[top.it + 1])))
    /\ IF /\ Len(stack) - top.stackRestore = top.it
          /\ \A k \in 1..top.it : /\ N(tree, node.args[k]).type = "ASTNODE_INIT"
                                  /\ N(tree, node.args[k]).eval # nullidx
       THEN /\ stack' = NameFrames(stack, top.stackRestore, node.args, tree)
            /\ cstack' = SetTop([top EXCEPT !.pc = "let_body"])
            /\ UNCHANGED status
       ELSE /\ status' = "abort"
            /\ UNCHANGED << stack, cstack >>
    /\ UNCHANGED << buffer, str, tokens, readCount, input, bound, inpos, tree, retreg, out, err, run, snap, visited, iflog >>

LetSkipDefun ==
    /\ At("let_body")
    /\ top.it < Len(node.args)
    /\ isDefun(N(tree, node.args[top.it + 1]))
    /\ cstack' = SetTop([top EXCEPT !.it = @ + 1])
    /\ UNCHANGED << buffer, str, tokens, readCount, input, bound, inpos, tree, stack, retreg, out, status, err, run, snap, visited, iflog >>

LetBody ==
    /\ At("let_body")
    /\ top.it < Len(node.args)
    /\ ~isDefun(N(tree, node.args[top.it + 1]))
    /\ cstack' = Call([top EXCEPT !.pc = "let_body_ret", !.kids = Append(@, top.it + 1)],
                       node.args[top.it + 1])
    /\ UNCHANGED << buffer, str, tokens, readCount, input, bound, inpos, tree, stack, retreg, out, status, err, run, snap, visited, iflog >>

\* LetBodyRet that keeps the sidefx of the last expression only
LetBodyRet_LastOnly ==
    /\ At("let_body_ret")
    /\ cstack' = SetTop([top EXCEPT !.pc = "let_body", !.it = @ + 1, !.ret = retreg.val,
                                    !.sidefx = retreg.val.sidefx,
                                    !.argvals = Append(@, retreg.val)])
    /\ retreg' = NoRet
    /\ UNCHANGED << buffer, str, tokens, readCount, input, bound, inpos, tree, stack, out, status, err, run, snap, visited, iflog >>

LetBodyRet ==
    /\ At("let_body_ret")
    /\ cstack' = SetTop([top EXCEPT !.pc = "let_body", !.it = @ + 1, !.ret = retreg.val,
                                    !.sidefx = @ \/ retreg.val.sidefx,
                                    !.argvals = Append(@, retreg.val)])
    /\ retreg' = NoRet
    /\ UNCHANGED << buffer, str, tokens, readCount, input, bound, inpos, tree, stack, out, status, err, run, snap, visited, iflog >>

\* LetExit that leaves the locals on the var stack
LetExit_NoPop ==
    /\ At("let_body")
    /\ top.it = Len(node.args)
    /\ LET ret == [top.ret EXCEPT !.sidefx = top.sidefx]
       IN IF ret.type = "none"
          THEN /\ status' = "abort"
               /\ UNCHANGED << tree, stack, cstack, retreg >>
          ELSE /\ stack' = stack
               /\ tree' = FoldNode(top.idx, ret, tree)
               /\ Return(top, ret)
    /\ UNCHANGED << buffer, str, tokens, readCount, input, bound, inpos, out, err, run, snap, visited, iflog >>

LetExit ==
    /\ At("let_body")
    /\ top.it = Len(node.args)
    /\ LET ret == [top.ret EXCEPT !.sidefx = top.sidefx]
       IN IF ret.type = "none"
          THEN /\ status' = "abort"
               /\ UNCHANGED << tree, stack, cstack, retreg >>
          ELSE /\ stack' = SubSeq(stack, 1, top.stackRestore)
               /\ tree' = FoldNode(top.idx, ret, tree)
               /\ Return(top, ret)
    /\ UNCHANGED << buffer, str, tokens, readCount, input, bound, inpos, out, err, run, snap, visited, iflog >>

\* ----------------------------------------------------------- eval: INIT
EvalInit ==
    /\ Entering("init")
    /\ visited' = Append(visited, top.idx)
    /\ IF node.args = << >>
       THEN /\ status' = "abort"
            /\ UNCHANGED cstack
       ELSE /\ cstack' = Call([Entered EXCEPT !.pc = "init_ret"], node.args[1])
            /\ UNCHANGED status
    /\ UNCHANGED << buffer, str, tokens, readCount, input, bound, inpos, tree, stack, retreg, out, err, run, snap, iflog >>

\* the frame an INIT pushes: anonymous, and a terminator of sidefx and incoh
PushedFrame(ret) == [name |-> nullidx, val |-> [ret EXCEPT !.sidefx = FALSE, !.incoh = FALSE]]

InitRet ==
    /\ At("init_ret")
    /\ LET ret == retreg.val
       IN /\ stack' = Append(stack, PushedFrame(ret))
          /\ tree' = FoldNode(top.idx, ret, tree)
          /\ Return([top EXCEPT !.argvals = << ret >>], ret)
    /\ UNCHANGED << buffer, str, tokens, readCount, input, bound, inpos, out, err, run, snap, visited, iflog >>

\* ------------------------------------------------------- eval: EVAL_VAR
EvalVar ==
    /\ Entering("var")
    /\ visited' = Append(visited, top.idx)
    /\ LET k == FindVar(stack, node.eval)
       IN IF k = 0
          THEN /\ status' \in {"abort", "crash"} \* assert(it != stack.rend()), or *rend()
               /\ UNCHANGED << tree, cstack, retreg >>
          ELSE /\ tree' = FoldNode(top.idx, stack[k].val, tree)
               /\ Return(Entered, stack[k].val)
    /\ UNCHANGED << buffer, str, tokens, readCount, input, bound, inpos, stack, out, err, run, snap, iflog >>

\* -------------------------------------------------------- eval: LITERAL
LiteralValue(n) ==
    IF n.rtype = "i32" THEN Value("i32", TRUE, FALSE, FALSE, n.i32, FZero)
    ELSE Value("f32", TRUE, FALSE, FALSE, 0, n.f32)

EvalLiteral ==
    /\ Entering("literal")
    /\ visited' = Append(visited, top.idx)
    /\ IF node.rtype \in {"i32", "f32"}
       THEN Return(Entered, LiteralValue(node))
       ELSE /\ status' = "abort"
            /\ UNCHANGED << cstack, retreg >>
    /\ UNCHANGED << buffer, str, tokens, readCount, input, bound, inpos, tree, stack, out, err, run, snap, iflog >>


\* ------------------------------------------------------ eval: evalArith
EvalArith ==
    /\ Entering("arith")
    /\ visited' = Append(visited, top.idx)
    /\ cstack' = Call([Entered EXCEPT !.pc = "arith_first", !.it = 0], node.args[1])
    /\ UNCHANGED << buffer, str, tokens, readCount, input, bound, inpos, tree, stack, retreg, out, status, err, run, snap, iflog >>

\* the accumulator after the first argument
ArithInit(arg) ==
    IF arg.type = "f32" THEN [isF32 |-> TRUE, i32 |-> 0, f32 |-> arg.f32]
    ELSE [isF32 |-> FALSE, i32 |-> arg.i32, f32 |-> FZero]

ArithFirst ==
    /\ At("arith_first")
    /\ LET arg == retreg.val
       IN cstack' = SetTop([top EXCEPT !.pc = "arith_loop", !.it = 1, !.acc = ArithInit(arg),
                                       !.literal = arg.literal, !.sidefx = arg.sidefx,
                                       !.incoh = arg.incoh, !.argvals = << arg >>])
    /\ retreg' = NoRet
    /\ UNCHANGED << buffer, str, tokens, readCount, input, bound, inpos, tree, stack, out, status, err, run, snap, visited, iflog >>

ArithNext ==
    /\ At("arith_loop")
    /\ top.it < Len(node.args)
    /\ cstack' = Call([top EXCEPT !.pc = "arith_ret"], node.args[top.it + 1])
    /\ UNCHANGED << buffer, str, tokens, readCount, input, bound, inpos, tree, stack, retreg, out, status, err, run, snap, visited, iflog >>

ArithRet ==
    /\ At("arith_ret")
    /\ LET arg == retreg.val
       IN IF TrapsI32(top.target, top.acc, arg)
          THEN /\ status' = "fpe"
               /\ UNCHANGED << cstack, retreg >>
          ELSE /\ cstack' = SetTop([top EXCEPT !.pc = "arith_loop", !.it = @ + 1,
                                               !.acc = ArithStep(top.target, top.acc, arg),
                                               !.literal = @ /\ arg.literal,
                                               !.sidefx = @ \/ arg.sidefx,
                                               !.incoh = @ \/ arg.incoh,
                                               !.argvals = Append(@, arg)])
               /\ retreg' = NoRet
               /\ UNCHANGED status
    /\ UNCHANGED << buffer, str, tokens, readCount, input, bound, inpos, tree, stack, out, err, run, snap, visited, iflog >>

\* the Value evalArith returns
ArithValue(f) ==
    IF f.acc.isF32 THEN Value("f32", f.literal, f.sidefx, f.incoh, 0, f.acc.f32)
    ELSE Value("i32", f.literal, f.sidefx, f.incoh, f.acc.i32, FZero)

ArithDone ==
    /\ At("arith_loop")
    /\ top.it = Len(node.args)
    /\ tree' = FoldNode(top.idx, ArithValue(top), tree)
    /\ Return(top, ArithValue(top))
    /\ UNCHANGED << buffer, str, tokens, readCount, input, bound, inpos, stack, out, err, run, snap, visited, iflog >>

\* --------------------------------------------------------- eval: evalIf
EvalIf ==
    /\ Entering("if")
    /\ visited' = Append(visited, top.idx)
    /\ cstack' = Call([Entered EXCEPT !.pc = "if_pred", !.aux = node.args[1]], node.args[1])
    /\ UNCHANGED << buffer, str, tokens, readCount, input, bound, inpos, tree, stack, retreg, out, status, err, run, snap, iflog >>

IfPred ==
    /\ At("if_pred")
    /\ LET pred == retreg.val
           branch == SelectBranch(top.target, pred)
       IN /\ cstack' = Call([top EXCEPT !.pc = "if_branch", !.branch = branch,
                                        !.literal = pred.literal, !.sidefx = pred.sidefx,
                                        !.argvals = << pred >>],
                            node.args[branch + 1])
          /\ iflog' = iflog \cup {[idx |-> top.idx, parent |-> node.parent,
                                   rtypes |-> << N(tree, node.args[2]).rtype,
                                                 N(tree, node.args[3]).rtype >>,
                                   target |-> top.target, pred |-> pred,
                                   predNode |-> top.aux, seen |-> Len(visited),
                                   branch |-> branch, taken |-> node.args[branch + 1],
                                   untaken |-> node.args[(3 - branch) + 1]]}
    /\ retreg' = NoRet
    /\ UNCHANGED << buffer, str, tokens, readCount, input, bound, inpos, tree, stack, out, status, err, run, snap, visited >>

\* the Value evalIf returns, from the branch's value and the predicate's statuses
IfValue(f, br, tr) ==
    LET args == N(tr, f.idx).args
    IN [br EXCEPT !.literal = @ /\ f.literal,
                  !.sidefx = @ \/ f.sidefx,
                  !.incoh = @ \/ (~f.literal /\ N(tr, args[2]).rtype # N(tr, args[3]).rtype)]

\* IfAsLet that keeps the selected branch only
IfAsLet_BranchOnly(index, branch, tr) ==
    LET n == N(tr, index)
    IN [tr EXCEPT ![index + 1] =
          [ASTNode("ASTNODE_LET", "none", n.parent, 0, "")
              EXCEPT !.args = << n.args[branch + 1] >>]]

\* a literal predicate with side effects: the if becomes a LET of predicate and branch
IfAsLet(index, branch, tr) ==
    LET n == N(tr, index)
    IN [tr EXCEPT ![index + 1] =
          [ASTNode("ASTNODE_LET", "none", n.parent, 0, "")
              EXCEPT !.args = << n.args[1], n.args[branch + 1] >>]]

IfBranch ==
    /\ At("if_branch")
    /\ LET ret == IfValue(top, retreg.val, tree)
           sel == node.args[top.branch + 1]
           f == [top EXCEPT !.aux = sel, !.argvals = Append(@, retreg.val)]
       IN IF ~top.literal
          THEN /\ tree' = FoldNode(top.idx, ret, tree)
               /\ Return(f, ret)
          ELSE IF top.sidefx
          THEN /\ tree' = FoldNode(top.idx, ret, IfAsLet(top.idx, top.branch, tree))
               /\ Return(f, ret)
          ELSE IF FindChild(top.idx, node.parent, tree) # 0
          THEN /\ tree' = replaceChild(top.idx, sel, node.parent, tree)
               /\ Return(f, ret)
          \* oldIdx is not among the parent's args: assert(end != it), or a store at end()
          ELSE \/ /\ status' = "abort"
                  /\ UNCHANGED << tree, cstack, retreg >>
               \/ /\ tree' = tree
                  /\ Return(f, ret)
    /\ UNCHANGED << buffer, str, tokens, readCount, input, bound, inpos, stack, out, err, run, snap, visited, iflog >>

\* ---------------------------------------------------------- eval: print
EvalPrint ==
    /\ Entering("print")
    /\ visited' = Append(visited, top.idx)
    /\ cstack' = Call([Entered EXCEPT !.pc = "print_ret"], node.args[1])
    /\ UNCHANGED << buffer, str, tokens, readCount, input, bound, inpos, tree, stack, retreg, out, status, err, run, snap, iflog >>

\* PrintValue that forgets the side effect
PrintValue_Unflagged(arg) == arg

\* the Value print returns for its argument's value
PrintValue(arg) == [arg EXCEPT !.sidefx = TRUE]

PrintRet ==
    /\ At("print_ret")
    /\ out' = Append(out, PrintLine(retreg.val))
    /\ tree' = FoldNode(top.idx, PrintValue(retreg.val), tree)
    /\ Return([top EXCEPT !.argvals = << retreg.val >>], PrintValue(retreg.val))
    /\ UNCHANGED << buffer, str, tokens, readCount, input, bound, inpos, stack, err, run, snap, visited, iflog >>

\* ----------------------------------------------------------- eval: read
EvalRead ==
    /\ Entering("read")
    /\ visited' = Append(visited, top.idx)
    /\ IF inpos < Len(input) /\ input[inpos + 1].ok
       THEN /\ inpos' = inpos + 1
            /\ Return(Entered, ReadValue(node.eval, input[inpos + 1].v))
       \* runtime error: invalid input; exit(-1)
       ELSE /\ status' = "failure"
            /\ UNCHANGED << inpos, cstack, retreg >>
    /\ UNCHANGED << buffer, str, tokens, readCount, input, bound, tree, stack, out, err, run, snap, iflog >>

\* ------------------------------------------------- eval: user call, inlined
\* variant: the args of the invocation become the first children of the inlined LET
AttachArgs_AsChildren(callArgs, k, letIdx, tr) ==
    [tr EXCEPT ![letIdx + 1].args = callArgs \o @]

\* patch the INITs of the inlined LET with the args of the invocation
RECURSIVE AttachArgs(_, _, _, _)
AttachArgs(callArgs, k, letIdx, tr) ==
    IF k > Len(callArgs) THEN tr
    ELSE AttachArgs(callArgs, k + 1, letIdx,
            [tr EXCEPT ![N(tr, letIdx).args[k] + 1].args = Append(@, callArgs[k])])

\* variant: the new LET shares the children of the definition instead of copying them
Inline_Shallow(index, tr) ==
    LET n == N(tr, index)
        newnodeIdx == Len(tr)
        t1 == Append(tr, [ASTNode("ASTNODE_LET", "none", n.parent, 0, "") EXCEPT !.args = N(tr, n.eval).args])
    IN Given(replaceChild(index, newnodeIdx, n.parent, t1), LAMBDA t3 :
          AttachArgs(n.args, 1, newnodeIdx, t3))

\* the arena after the inlining of the call at index, the new LET being at Len(tree)
Inline(index, tr) ==
    LET n == N(tr, index)
        newnodeIdx == Len(tr)
        t1 == Append(tr, ASTNode("ASTNODE_LET", "none", n.parent, 0, ""))
    IN Given(copySubtree(n.eval, newnodeIdx, t1), LAMBDA t2 :
       Given(replaceChild(index, newnodeIdx, n.parent, t2), LAMBDA t3 :
          AttachArgs(n.args, 1, newnodeIdx, t3)))

\* assert(ASTNODE_INIT == tree[*at].type && tree[*at].args.empty()) for every arg
CanAttach(index, tr) ==
    LET n == N(tr, index)
        d == N(tr, n.eval)
    IN /\ Len(n.args) <= Len(d.args)
       /\ \A k \in 1..Len(n.args) : N(tr, d.args[k]).type = "ASTNODE_INIT" /\ N(tr, d.args[k]).args = << >>

EvalCall ==
    /\ Entering("call")
    /\ visited' = Append(visited, top.idx)
    /\ IF Len(tree) + SubtreeSize(tree, node.eval) > MaxNodes
       THEN /\ status' = "capped"
            /\ UNCHANGED << tree, cstack >>
       ELSE IF ~CanAttach(top.idx, tree)
       THEN /\ status' = "abort"
            /\ UNCHANGED << tree, cstack >>
       ELSE IF FindChild(top.idx, node.parent, tree) # 0
       THEN /\ tree' = Inline(top.idx, tree)
            /\ cstack' = Call([Entered EXCEPT !.pc = "inline_ret", !.aux = Len(tree)], Len(tree))
            /\ UNCHANGED status
       \* oldIdx is not among the parent's args: assert(end != it), or a store at end()
       ELSE \/ /\ status' = "abort"
               /\ UNCHANGED << tree, cstack >>
            \/ /\ tree' = Inline(top.idx, tree)
               /\ cstack' = Call([Entered EXCEPT !.pc = "inline_ret", !.aux = Len(tree)], Len(tree))
               /\ UNCHANGED status
    /\ UNCHANGED << buffer, str, tokens, readCount, input, bound, inpos, stack, retreg, out, err, run, snap, iflog >>

\* return eval(newnodeIdx, tree, stack)
InlineRet ==
    /\ At("inline_ret")
    /\ Return(top, retreg.val)
    /\ UNCHANGED << buffer, str, tokens, readCount, input, bound, inpos, tree, stack, out, err, run, snap, visited, iflog >>


\* -------------------------------------------------------------------- main
\* zero bytes read: main returns 0 before tokenizing
ExitEmpty ==
    /\ status = "start"
    /\ readCount = 0
    /\ Halt("empty")

\* the binding loop and the root check, then the call eval(0, tree, stack)
Bind ==
    /\ status = "start"
    /\ readCount # 0
    /\ LET r == BindProgram(tokens)
       IN /\ tree' = r.tree
          /\ bound' = r.tree
          /\ err' = r.err
          /\ IF r.span = -1
             THEN /\ status' \in (IF r.ub THEN {"failure", "crash"} ELSE {"failure"})
                  /\ UNCHANGED cstack
             ELSE /\ status' \in (IF r.ub THEN {"eval", "crash"} ELSE {"eval"})
                  /\ cstack' = << Frame(0, 0) >>
    /\ UNCHANGED << buffer, str, tokens, readCount, input, inpos, stack, retreg, out, run, snap, visited, iflog >>

\* eval(0, tree, stack) once more, on the rewritten arena and the same stdin
Rerun ==
    /\ status = "done"
    /\ run = 1
    /\ run' = 2
    /\ snap' = [tree |-> tree, val |-> retreg.val, out |-> out, inpos |-> inpos]
    /\ status' = "eval"
    /\ cstack' = << Frame(0, Len(stack)) >>
    /\ retreg' = NoRet
    /\ inpos' = 0
    /\ out' = << >>
    /\ visited' = << >>
    /\ iflog' = {}
    /\ UNCHANGED << buffer, str, tokens, readCount, input, bound, tree, stack, err >>

\* ---------------------------------------------------------------- programs
Par(body) == << LP >> \o body \o << RP >>
Defun(name, params, body) == Par(<< DEFUN, Id(name) >> \o Par(params) \o body)
CallOf(head, args) == Par(<< head >> \o args)

FibDef == Defun("fib", << Id("x"), Id("y"), Id("n") >>,
            CallOf(IFZERO, << Id("n"), Id("y") >> \o
                CallOf(Id("fib"), << Id("y") >> \o CallOf(PLUS, << Id("x"), Id("y") >>)
                                              \o CallOf(MINUS, << Id("n"), I(1) >>))))

FibPrintDef == Defun("fib", << Id("x"), Id("y"), Id("n") >>,
            CallOf(PRINT, << Id("x") >>) \o
            CallOf(IFZERO, << Id("n") >> \o CallOf(PRINT, << Id("y") >>) \o
                CallOf(Id("fib"), << Id("y") >> \o CallOf(PLUS, << Id("x"), Id("y") >>)
                                              \o CallOf(MINUS, << Id("n"), I(1) >>))))

FibProgs ==
    {d \o CallOf(Id("fib"), << I(1), I(1), I(n) >>) : d \in {FibDef, FibPrintDef}, n \in 0..MaxFib}
    \cup {d \o CallOf(Id("fib"), << I(1), I(1) >> \o CallOf(READI32, << >>)) : d \in {FibDef, FibPrintDef}}

ArithOps == {PLUS, MINUS, MUL, DIV}
ArithLits == {I(7), I(-7), I(2), F(2, 1), F(1, 2)}
ArithLits2 == ArithLits \cup {I(0), F(0, 1)}

ArithProgs ==
    {CallOf(op, << a, b, c >>) : op \in ArithOps, a \in ArithLits, b \in ArithLits, c \in ArithLits}
    \cup {CallOf(op, << a, b >>) : op \in ArithOps, a \in ArithLits2, b \in ArithLits2}

PredExprs == {<< I(0) >>, << I(1) >>, << I(-1) >>, << F(0, 1) >>, << F(-1, 2) >>,
              CallOf(PRINT, << I(0) >>), CallOf(PRINT, << I(-1) >>),
              CallOf(READI32, << >>), CallOf(READF32, << >>)}
ThenExprs == {<< I(1) >>, CallOf(PRINT, << I(1) >>)}
ElseExprs == {<< I(2) >>, << F(2, 1) >>, CallOf(PRINT, << I(2) >>), CallOf(READI32, << >>)}

IfProgs ==
    {CallOf(kw, p \o a \o b) : kw \in {IFZERO, IFNEG}, p \in PredExprs, a \in ThenExprs, b \in ElseExprs}

GDef == Defun("g", << Id("y") >>, << Id("y") >>)
FBodies == {<< Id("x") >>,
            CallOf(PRINT, << Id("x") >>),
            CallOf(IFZERO, << Id("x"), I(1) >> \o CallOf(PRINT, << I(2) >>)),
            CallOf(Id("g"), << Id("x") >>)}
FArgs == {<< I(1) >>, << F(1, 2) >>,
          CallOf(PRINT, << I(0) >>),
          CallOf(Id("g"), << I(1) >>),
          CallOf(IFZERO, << I(0), I(1), I(2) >>),
          CallOf(IFNEG, CallOf(PRINT, << I(0) >>) \o << I(1), I(2) >>),
          CallOf(READI32, << >>),
          CallOf(PLUS, << I(1), I(2) >>)}
\* where the call (f ARG) stands: the root, a let binding, a let body, print, +, an if branch
Contexts(e) == {e,
                CallOf(LETK, Par(Par(<< Id("v") >> \o e)) \o << Id("v") >>),
                CallOf(LETK, Par(Par(<< Id("v") >> \o << I(3) >>)) \o e \o << Id("v") >>),
                CallOf(PRINT, e),
                CallOf(PLUS, << I(1) >> \o e),
                CallOf(IFZERO, << I(0) >> \o e \o << I(2) >>)}

CallProgs ==
    UNION {{GDef \o Defun("f", << Id("x") >>, b) \o c : c \in Contexts(CallOf(Id("f"), a))} :
              b \in FBodies, a \in FArgs}

OtherProgs == {
    \* (defun sq(x) (* x x)) (+ (sq 3) (sq 4))
    Defun("sq", << Id("x") >>, CallOf(MUL, << Id("x"), Id("x") >>))
        \o CallOf(PLUS, CallOf(Id("sq"), << I(3) >>) \o CallOf(Id("sq"), << I(4) >>)),
    \* (let ((x 1) (y (print 2))) (+ x y))
    CallOf(LETK, Par(Par(<< Id("x"), I(1) >>) \o Par(<< Id("y") >> \o CallOf(PRINT, << I(2) >>)))
                 \o CallOf(PLUS, << Id("x"), Id("y") >>)),
    \* (let ((x (readi32))) 5)
    CallOf(LETK, Par(Par(<< Id("x") >> \o CallOf(READI32, << >>))) \o << I(5) >>),
    \* (defun f(a b) (print (+ a b))) (f (print 1) (print 2)) 3
    Defun("f", << Id("a"), Id("b") >>, CallOf(PRINT, CallOf(PLUS, << Id("a"), Id("b") >>)))
        \o CallOf(Id("f"), CallOf(PRINT, << I(1) >>) \o CallOf(PRINT, << I(2) >>)) \o << I(3) >>,
    \* (let ((x 1)) (let ((x (+ x 1)) (y x)) (print (* x y))))
    CallOf(LETK, Par(Par(<< Id("x"), I(1) >>)) \o
        CallOf(LETK, Par(Par(<< Id("x") >> \o CallOf(PLUS, << Id("x"), I(1) >>)) \o Par(<< Id("y"), Id("x") >>))
                     \o CallOf(PRINT, CallOf(MUL, << Id("x"), Id("y") >>)))),
    \* (defun f(x) (f x)) (f 1)
    Defun("f", << Id("x") >>, CallOf(Id("f"), << Id("x") >>)) \o CallOf(Id("f"), << I(1) >>),
    \* rejected by the binder
    << >>,
    FibDef,
    CallOf(Id("h"), << I(1) >>),
    CallOf(PRINT, << >>),
    << Id("x") >>
}

Bind1(name, e) == Par(<< Id(name) >> \o e)
LetOf(binds, body) == CallOf(LETK, Par(binds) \o body)

\* lets whose initialisers name a variable that a sibling binding also names
ScopeProgs == {
    \* (let ((x 1)) (let ((x 2) (y x)) (print y)))
    LetOf(Bind1("x", << I(1) >>),
        LetOf(Bind1("x", << I(2) >>) \o Bind1("y", << Id("x") >>), CallOf(PRINT, << Id("y") >>))),
    \* (let ((x 1) (y x)) y)
    LetOf(Bind1("x", << I(1) >>) \o Bind1("y", << Id("x") >>), << Id("y") >>),
    \* (let ((x 1)) (let ((x 2) (y (let ((z x)) z))) (print y)))
    LetOf(Bind1("x", << I(1) >>),
        LetOf(Bind1("x", << I(2) >>) \o Bind1("y", LetOf(Bind1("z", << Id("x") >>), << Id("z") >>)),
              CallOf(PRINT, << Id("y") >>))),
    \* (let ((x 1)) (let ((x 2) (y (+ 1 (let ((z x)) z)))) (print y)))
    LetOf(Bind1("x", << I(1) >>),
        LetOf(Bind1("x", << I(2) >>)
                  \o Bind1("y", CallOf(PLUS, << I(1) >> \o LetOf(Bind1("z", << Id("x") >>), << Id("z") >>))),
              CallOf(PRINT, << Id("y") >>))),
    \* (defun g(x) x) (defun f(x) (print x)) (f 1)
    Defun("g", << Id("x") >>, << Id("x") >>) \o Defun("f", << Id("x") >>, CallOf(PRINT, << Id("x") >>))
        \o CallOf(Id("f"), << I(1) >>)
}

\* defuns nested in a defun or in a let, and calls of them
NestProgs == {
    \* (defun f(x n) (defun g(y) (print (+ x y))) (ifzero n (g 0) (f (g 1) (- n 1)))) (f 5 1)
    Defun("f", << Id("x"), Id("n") >>,
          Defun("g", << Id("y") >>, CallOf(PRINT, CallOf(PLUS, << Id("x"), Id("y") >>)))
          \o CallOf(IFZERO, << Id("n") >> \o CallOf(Id("g"), << I(0) >>)
                 \o CallOf(Id("f"), CallOf(Id("g"), << I(1) >>) \o CallOf(MINUS, << Id("n"), I(1) >>))))
        \o CallOf(Id("f"), << I(5), I(1) >>),
    \* (defun f(x) (defun g(y) (+ x y)) (defun h(x) (g x)) (print (h 5))) (f 1)
    Defun("f", << Id("x") >>,
          Defun("g", << Id("y") >>, CallOf(PLUS, << Id("x"), Id("y") >>))
          \o Defun("h", << Id("x") >>, CallOf(Id("g"), << Id("x") >>))
          \o CallOf(PRINT, CallOf(Id("h"), << I(5) >>)))
        \o CallOf(Id("f"), << I(1) >>),
    \* (let ((a 1)) (defun g(y) (+ a y)) (let ((a 10)) (print (g a))))
    LetOf(Bind1("a", << I(1) >>),
          Defun("g", << Id("y") >>, CallOf(PLUS, << Id("a"), Id("y") >>))
          \o LetOf(Bind1("a", << I(10) >>), CallOf(PRINT, CallOf(Id("g"), << Id("a") >>)))),
    \* (defun f(n) (let ((a n) (b (ifzero n 0 (f (- n 1))))) (print (+ a b)))) (f 1)
    Defun("f", << Id("n") >>,
          LetOf(Bind1("a", << Id("n") >>)
                \o Bind1("b", CallOf(IFZERO, << Id("n"), I(0) >>
                                        \o CallOf(Id("f"), CallOf(MINUS, << Id("n"), I(1) >>)))),
                CallOf(PRINT, CallOf(PLUS, << Id("a"), Id("b") >>))))
        \o CallOf(Id("f"), << I(1) >>)
}

\* one call of every built-in and of a two-parameter function f, with 0 to MaxArgs arguments
ArityHeads == ArithOps \cup {IFZERO, IFNEG, PRINT, READI32, READF32, Id("f")}
ArityProg(h, n) ==
    (IF h = Id("f")
     THEN Defun("f", << Id("a"), Id("b") >>, CallOf(PLUS, << Id("a"), Id("b") >>))
     ELSE << >>) \o CallOf(h, [k \in 1..n |-> I(k)])
ArityProgs == {ArityProg(h, n) : h \in ArityHeads, n \in 0..MaxArgs}

G1 == Defun("g", << Id("y") >>, << I(1) >>)
G2 == Defun("g", << Id("y") >>, << I(2) >>)

\* calls that find their defun: shadowed, duplicated, redefined later, recursive
ResolveProgs == {
    \* (defun g(y) 1) (defun f(x) (defun g(y) 2) (g x)) (print (f 0))
    G1 \o Defun("f", << Id("x") >>, G2 \o CallOf(Id("g"), << Id("x") >>))
       \o CallOf(PRINT, CallOf(Id("f"), << I(0) >>)),
    \* (defun g(y) 1) (defun g(y) 2) (print (g 0))
    G1 \o G2 \o CallOf(PRINT, CallOf(Id("g"), << I(0) >>)),
    \* (defun g(y) 1) (defun f(x) (g x)) (defun g(y) 2) (print (f 0))
    G1 \o Defun("f", << Id("x") >>, CallOf(Id("g"), << Id("x") >>)) \o G2
       \o CallOf(PRINT, CallOf(Id("f"), << I(0) >>)),
    \* (let ((a 1)) (defun g(y) 2) (print (g a)))
    LetOf(Bind1("a", << I(1) >>), G2 \o CallOf(PRINT, CallOf(Id("g"), << Id("a") >>))),
    \* (defun g(y) 1) (let ((a (g 0))) (print a))
    G1 \o LetOf(Bind1("a", CallOf(Id("g"), << I(0) >>)), CallOf(PRINT, << Id("a") >>)),
    \* (defun f(n) (defun f(m) 7) (f 1)) (f 0)
    Defun("f", << Id("n") >>, Defun("f", << Id("m") >>, << I(7) >>) \o CallOf(Id("f"), << I(1) >>))
       \o CallOf(Id("f"), << I(0) >>)
}

\* calls that name no defun in scope when they are closed
ForwardProgs == {
    \* (defun f(x) (g x)) (defun g(y) 1) (f 1)
    Defun("f", << Id("x") >>, CallOf(Id("g"), << Id("x") >>)) \o G1 \o CallOf(Id("f"), << I(1) >>),
    \* (defun f(x) (defun g(y) 1) (g 1)) (g 2)
    Defun("f", << Id("x") >>, G1 \o CallOf(Id("g"), << I(1) >>)) \o CallOf(Id("g"), << I(2) >>),
    \* (let ((a 1)) (defun g(y) 1) a) (g 1)
    LetOf(Bind1("a", << I(1) >>), G1 \o << Id("a") >>) \o CallOf(Id("g"), << I(1) >>),
    \* (let ((g 1)) (g 2))
    LetOf(Bind1("g", << I(1) >>), CallOf(Id("g"), << I(2) >>)),
    \* (g 1) (defun g(y) 1)
    CallOf(Id("g"), << I(1) >>) \o G1,
    \* (let ((a (g 1))) (defun g(y) 1) a)
    LetOf(Bind1("a", CallOf(Id("g"), << I(1) >>)), G1 \o << Id("a") >>)
}

\* the places a defun can be written at
DefunPlaces == {"root", "let body", "defun body", "initialiser", "print", "arith", "if", "call"}
DefunAt(place) ==
    CASE place = "root" -> G1 \o CallOf(Id("g"), << I(0) >>)
      [] place = "let body" -> LetOf(Bind1("a", << I(1) >>), G1 \o CallOf(Id("g"), << Id("a") >>))
      [] place = "defun body" ->
            Defun("f", << Id("x") >>, G1 \o CallOf(Id("g"), << Id("x") >>)) \o CallOf(Id("f"), << I(0) >>)
      [] place = "initialiser" -> LetOf(Bind1("a", G1), << Id("a") >>)
      [] place = "print" -> CallOf(PRINT, G1)
      [] place = "arith" -> CallOf(PLUS, << I(1) >> \o G1 \o << I(2) >>)
      [] place = "if" -> CallOf(IFZERO, << I(0) >> \o G1 \o << I(2) >>)
      [] place = "call" -> Defun("f", << Id("x") >>, << Id("x") >>) \o CallOf(Id("f"), G1)
PlaceProgs == {DefunAt(place) : place \in DefunPlaces}

\* two-operand sums over variables, parameters, calls, reads and ifs of mixed type
MixedIf(p) == CallOf(IFZERO, p \o << I(1), F(5, 2) >>)
PromoProgs == {
    \* (+ (ifzero (readi32) 1 2.5) 1)
    CallOf(PLUS, MixedIf(CallOf(READI32, << >>)) \o << I(1) >>),
    \* (+ 1 (ifzero 1 1 2.5))
    CallOf(PLUS, << I(1) >> \o MixedIf(<< I(1) >>)),
    \* (defun f(x) (+ x 1)) (f 1.5)
    Defun("f", << Id("x") >>, CallOf(PLUS, << Id("x"), I(1) >>)) \o CallOf(Id("f"), << F(3, 2) >>),
    \* (defun f(x) (+ 1 x)) (f (readf32))
    Defun("f", << Id("x") >>, CallOf(PLUS, << I(1), Id("x") >>))
        \o CallOf(Id("f"), CallOf(READF32, << >>)),
    \* (let ((v (ifzero (readi32) 1 2.5))) (+ v 1))
    LetOf(Bind1("v", MixedIf(CallOf(READI32, << >>))), CallOf(PLUS, << Id("v"), I(1) >>)),
    \* (defun h(a) (ifzero a 1 2.5)) (+ (h (readi32)) 2)
    Defun("h", << Id("a") >>, MixedIf(<< Id("a") >>))
        \o CallOf(PLUS, CallOf(Id("h"), CallOf(READI32, << >>)) \o << I(2) >>),
    \* (+ (readf32) 1)
    CallOf(PLUS, CallOf(READF32, << >>) \o << I(1) >>),
    \* (+ (print 1) (print 2.5))
    CallOf(PLUS, CallOf(PRINT, << I(1) >>) \o CallOf(PRINT, << F(5, 2) >>))
}

\* ifs whose predicate is a call or an if that prints, and whose branches are calls
IfLetProgs == {
    \* (defun f(x) x) (ifzero (f (print 0)) (f 1) 2)
    Defun("f", << Id("x") >>, << Id("x") >>)
        \o CallOf(IFZERO, CallOf(Id("f"), CallOf(PRINT, << I(0) >>)) \o CallOf(Id("f"), << I(1) >>) \o << I(2) >>),
    \* (ifneg (ifzero 0 (print 0) 5) 1 (print 2))
    CallOf(IFNEG, CallOf(IFZERO, << I(0) >> \o CallOf(PRINT, << I(0) >>) \o << I(5) >>)
                    \o << I(1) >> \o CallOf(PRINT, << I(2) >>)),
    \* (print (ifzero (print 0) (readi32) 2.5))
    CallOf(PRINT, CallOf(IFZERO, CallOf(PRINT, << I(0) >>) \o CallOf(READI32, << >>) \o << F(5, 2) >>))
}

\* ifs on a value read from stdin whose branches are parameters, calls and ifs
KeptIfProgs == {
    \* (defun f(x) (ifzero (readi32) x x)) (f 2)
    Defun("f", << Id("x") >>, CallOf(IFZERO, CallOf(READI32, << >>) \o << Id("x"), Id("x") >>))
        \o CallOf(Id("f"), << I(2) >>),
    \* (defun f(x) (ifzero (readi32) x 1)) (f 2)
    Defun("f", << Id("x") >>, CallOf(IFZERO, CallOf(READI32, << >>) \o << Id("x"), I(1) >>))
        \o CallOf(Id("f"), << I(2) >>),
    \* (ifneg (readi32) (ifzero 0 1 2.5) 1)
    CallOf(IFNEG, CallOf(READI32, << >>) \o MixedIf(<< I(0) >>) \o << I(1) >>),
    \* (ifzero (readf32) (+ 1 2) (print 3))
    CallOf(IFZERO, CallOf(READF32, << >>) \o CallOf(PLUS, << I(1), I(2) >>) \o CallOf(PRINT, << I(3) >>)),
    \* (ifzero (readi32) (ifzero (readi32) 1 2.5) 2.5)
    CallOf(IFZERO, CallOf(READI32, << >>) \o MixedIf(CallOf(READI32, << >>)) \o << F(5, 2) >>)
}

\* lets with several initialisers and body expressions, and defuns between and after them
LetProgs == {
    \* (let ((a (print 1)) (b 2)) (defun g(y) (+ y 1)) (+ a b) 7 (defun h(z) z))
    LetOf(Bind1("a", CallOf(PRINT, << I(1) >>)) \o Bind1("b", << I(2) >>),
          Defun("g", << Id("y") >>, CallOf(PLUS, << Id("y"), I(1) >>))
          \o CallOf(PLUS, << Id("a"), Id("b") >>) \o << I(7) >>
          \o Defun("h", << Id("z") >>, << Id("z") >>)),
    \* (let ((a 1)) (print a) (defun g(y) (print y)) (g 2.5) a)
    LetOf(Bind1("a", << I(1) >>),
          CallOf(PRINT, << Id("a") >>) \o Defun("g", << Id("y") >>, CallOf(PRINT, << Id("y") >>))
          \o CallOf(Id("g"), << F(5, 2) >>) \o << Id("a") >>),
    \* (let ((a (readi32))) (ifzero a 1 2.5))
    LetOf(Bind1("a", CallOf(READI32, << >>)), MixedIf(<< Id("a") >>)),
    \* (let ((a 1)) (defun g(y) y))
    LetOf(Bind1("a", << I(1) >>), Defun("g", << Id("y") >>, << Id("y") >>))
}

Programs ==
    FibProgs \cup ArithProgs \cup IfProgs \cup CallProgs \cup OtherProgs \cup ScopeProgs \cup NestProgs
    \cup ArityProgs \cup ResolveProgs \cup ForwardProgs \cup PlaceProgs \cup PromoProgs
    \cup IfLetProgs \cup KeptIfProgs \cup LetProgs

\* what stdin may hold: up to two items, each a number or something that is not one
InputItems == {[ok |-> TRUE, v |-> 0], [ok |-> TRUE, v |-> 1], [ok |-> TRUE, v |-> -1],
               [ok |-> FALSE, v |-> 0]}
Inputs == {<< >>} \cup {<< a >> : a \in InputItems}

Reads(toks) == \E k \in 1..Len(toks) : toks[k].token \in {"TOKEN_READ_I32", "TOKEN_READ_F32"}

Init ==
    /\ buffer = << >>
    /\ str = 0
    /\ tokens \in Programs
    /\ readCount \in (IF tokens = << >> THEN {0, 1} ELSE {Len(tokens)})
    /\ input \in (IF Reads(tokens) THEN Inputs ELSE {<< >>})
    /\ inpos = 0
    /\ tree = << >>
    /\ bound = << >>
    /\ stack = << >>
    /\ cstack = << >>
    /\ retreg = NoRet
    /\ out = << >>
    /\ status = "start"
    /\ err = << >>
    /\ run = 1
    /\ snap = NoSnap
    /\ visited = << >>
    /\ iflog = {}

Next ==
    \/ ExitEmpty
    \/ Bind
    \/ Rerun
    \/ EvalLet
    \/ LetInit
    \/ LetInitRet
    \/ LetNames
    \/ LetSkipDefun
    \/ LetBody
    \/ LetBodyRet
    \/ LetExit
    \/ EvalInit
    \/ InitRet
    \/ EvalVar
    \/ EvalLiteral
    \/ EvalArith
    \/ ArithFirst
    \/ ArithNext
    \/ ArithRet
    \/ ArithDone
    \/ EvalIf
    \/ IfPred
    \/ IfBranch
    \/ EvalPrint
    \/ PrintRet
    \/ EvalRead
    \/ EvalCall
    \/ InlineRet

Spec == Init /\ [][Next]_vars

\* the runs of the fib programs (and of the empty input); eval runs in one thread, with
\* nothing to wait for but stdin at end of file: once main has called it, a step of the
\* evaluation that can be taken is taken
FibInit == Init /\ tokens \in FibProgs \cup {<< >>}
FairSpec == FibInit /\ [][Next]_vars /\ WF_vars(status = "eval" /\ Next)


\* ------------------------------------------------------------------- lexer
\* the source text is a sequence of one-character strings; the byte after the last one is
\* the terminator '\0', written NUL
NUL == ""
Byte(buf, p) == IF p >= 0 /\ p < Len(buf) THEN buf[p + 1] ELSE NUL

Digits == << "0", "1", "2", "3", "4", "5", "6", "7", "8", "9" >>
HexUpper == << "A", "B", "C", "D", "E", "F" >>
HexLower == << "a", "b", "c", "d", "e", "f" >>
Upper == {"A", "B", "C", "D", "E", "F", "G", "H", "I", "J", "K", "L", "M", "N", "O", "P", "Q",
          "R", "S", "T", "U", "V", "W", "X", "Y", "Z"}
Lower == {"a", "b", "c", "d", "e", "f", "g", "h", "i", "j", "k", "l", "m", "n", "o", "p", "q",
          "r", "s", "t", "u", "v", "w", "x", "y", "z"}
Range(seq) == {seq[k] : k \in 1..Len(seq)}
IndexOf(s, c) == CHOOSE k \in 1..Len(s) : s[k] = c

\* the reserved table, in the order getToken walks it: the text of each keyword and its token
keywordText == <<
    << "(" >>, << ")" >>, << "d", "e", "f", "u", "n" >>, << "l", "e", "t" >>,
    << "+" >>, << "-" >>, << "*" >>, << "/" >>,
    << "i", "f", "z", "e", "r", "o" >>, << "i", "f", "n", "e", "g" >>,
    << "p", "r", "i", "n", "t" >>,
    << "r", "e", "a", "d", "i", "3", "2" >>, << "r", "e", "a", "d", "f", "3", "2" >> >>
keywords == << LP, RP, DEFUN, LETK, PLUS, MINUS, MUL, DIV, IFZERO, IFNEG, PRINT, READI32, READF32 >>
separators == << " ", "\t", "\r", "\n" >>

TRI_FALSE == 0
TRI_PRIME == 1
TRI_SECOND == 2

isTerminator(c) == c = NUL

isSeparator(c) ==
    IF isTerminator(c) THEN TRI_SECOND
    ELSE IF \E i \in 1..(Len(separators) - 1) : c = separators[i] THEN TRI_SECOND
    ELSE IF c = separators[Len(separators)] THEN TRI_PRIME
    ELSE TRI_FALSE

isAllowedIdentifier(c) ==
    IF isSeparator(c) # TRI_FALSE THEN FALSE
    ELSE c \in Range(Digits) \cup Upper \cup {"_"} \cup Lower

isAllowedLiteral(c) ==
    IF isSeparator(c) # TRI_FALSE THEN FALSE
    ELSE c \in Range(Digits) \cup Range(HexUpper) \cup Range(HexLower)

isSign(c) == IF c = "+" THEN TRI_PRIME ELSE IF c = "-" THEN TRI_SECOND ELSE TRI_FALSE

isDecimalPoint(c) == c = "."

\* while (isAllowedLiteral(tokend)) tokend++;
RECURSIVE SkipLiteral(_, _)
SkipLiteral(buf, p) == IF isAllowedLiteral(Byte(buf, p)) THEN SkipLiteral(buf, p + 1) ELSE p

\* while (isAllowedIdentifier(tokend)) tokend++;
RECURSIVE SkipIdentifier(_, _)
SkipIdentifier(buf, p) == IF isAllowedIdentifier(Byte(buf, p)) THEN SkipIdentifier(buf, p + 1) ELSE p

\* the text buf[p .. p + n - 1] as one string
RECURSIVE Text(_, _, _)
Text(buf, p, n) == IF n = 0 THEN "" ELSE Byte(buf, p) \o Text(buf, p + 1, n - 1)

\* the run of decimal digits at p: how many there are and their value
RECURSIVE ScanDigits(_, _, _, _)
ScanDigits(buf, p, count, val) ==
    IF Byte(buf, p) \in Range(Digits)
    THEN ScanDigits(buf, p + 1, count + 1, 10 * val + (IndexOf(Digits, Byte(buf, p)) - 1))
    ELSE [count |-> count, val |-> val]

HexDigitVal(c) ==
    IF c \in Range(Digits) THEN IndexOf(Digits, c) - 1
    ELSE IF c \in Range(HexUpper) THEN 9 + IndexOf(HexUpper, c)
    ELSE 9 + IndexOf(HexLower, c)

RECURSIVE ScanHexDigits(_, _, _, _)
ScanHexDigits(buf, p, count, val) ==
    IF isAllowedLiteral(Byte(buf, p))
    THEN ScanHexDigits(buf, p + 1, count + 1, 16 * val + HexDigitVal(Byte(buf, p)))
    ELSE [count |-> count, val |-> val]

RECURSIVE Pow10(_)
Pow10(k) == IF k = 0 THEN 1 ELSE 10 * Pow10(k - 1)

\* sscanf(str, "%d%n"): an optional sign and at least one digit
ScanD(buf, p) ==
    LET sign == isSign(Byte(buf, p))
        q == IF sign # TRI_FALSE THEN p + 1 ELSE p
        d == ScanDigits(buf, q, 0, 0)
    IN [ok |-> d.count > 0,
        val |-> IF sign = TRI_SECOND THEN -d.val ELSE d.val,
        consumed |-> (q - p) + d.count]

\* sscanf(str, "%x%n")
ScanX(buf, p) ==
    LET d == ScanHexDigits(buf, p, 0, 0)
    IN [ok |-> d.count > 0, val |-> d.val, consumed |-> d.count]

\* sscanf(str, "%f%n") for the decimal notation without an exponent: an optional sign, digits,
\* an optional point and digits, with a digit on one side of the point at least
ScanF(buf, p) ==
    LET sign == isSign(Byte(buf, p))
        q == IF sign # TRI_FALSE THEN p + 1 ELSE p
        whole == ScanDigits(buf, q, 0, 0)
        point == isDecimalPoint(Byte(buf, q + whole.count))
        frac == IF point THEN ScanDigits(buf, q + whole.count + 1, 0, 0) ELSE [count |-> 0, val |-> 0]
        ok == whole.count + frac.count > 0
    IN [ok |-> ok,
        val |-> Rat(whole.val * Pow10(frac.count) + frac.val,
                    (IF sign = TRI_SECOND THEN -1 ELSE 1) * Pow10(frac.count)),
        consumed |-> (q - p) + whole.count + (IF point THEN 1 + frac.count ELSE 0)]

\* 0 == strncmp(str, keywords[i], keywordLen)
strncmp(buf, p, kw) == \A k \in 1..Len(kw) : Byte(buf, p + k - 1) = kw[k]

\* a table that tests only the text
keywordMatch_TextOnly(buf, p, kw) == strncmp(buf, p, kw)

\* the test of the keyword loop: the text matches, and a keyword that ends with an identifier
\* character is not followed by one
keywordMatch(buf, p, kw) ==
    /\ strncmp(buf, p, kw)
    /\ \/ ~isAllowedIdentifier(kw[Len(kw)])
       \/ ~isAllowedIdentifier(Byte(buf, p + Len(kw)))

TOKEN_UNKNOWN == Tok("TOKEN_UNKNOWN")

\* the token at p and its length; literals > keywords > identifiers > unknown
getToken(buf, p) ==
    LET hassign == isSign(Byte(buf, p))
        t0 == IF hassign # TRI_FALSE THEN p + 1 ELSE p
        hex == Byte(buf, t0) = "0" /\ Byte(buf, t0 + 1) \in {"X", "x"}
        t1 == IF hex THEN t0 + 2 ELSE t0
        t2 == SkipLiteral(buf, t1)
        tokend == IF isDecimalPoint(Byte(buf, t2)) THEN SkipLiteral(buf, t2 + 1) ELSE t2
        literal == /\ tokend # p
                   /\ isSign(Byte(buf, tokend)) = TRI_FALSE
                   /\ ~isDecimalPoint(Byte(buf, tokend))
                   /\ \/ ~isAllowedIdentifier(Byte(buf, tokend - 1))
                      \/ ~isAllowedIdentifier(Byte(buf, tokend))
        toklen == tokend - p
        offset == IF hassign # TRI_FALSE THEN 3 ELSE 2
        x == ScanX(buf, p + offset)
        d == ScanD(buf, p)
        f == ScanF(buf, p)
        hits == {i \in 1..Len(keywords) : keywordMatch(buf, p, keywordText[i])}
        first == CHOOSE i \in hits : \A j \in hits : i <= j
        idend == SkipIdentifier(buf, p)
    IN IF literal /\ hex /\ x.ok /\ x.consumed = toklen - offset
       THEN [token |-> I(IF hassign = TRI_SECOND THEN -x.val ELSE x.val), len |-> toklen]
       ELSE IF literal /\ ~hex /\ d.ok /\ d.consumed = toklen
       THEN [token |-> I(d.val), len |-> toklen]
       ELSE IF literal /\ f.ok /\ f.consumed = toklen
       THEN [token |-> [F(0, 1) EXCEPT !.f32 = f.val], len |-> toklen]
       ELSE IF hits # {}
       THEN [token |-> keywords[first], len |-> Len(keywordText[first])]
       ELSE IF idend # p
       THEN [token |-> Id(Text(buf, p, idend - p)), len |-> idend - p]
       ELSE [token |-> TOKEN_UNKNOWN, len |-> 0]

Lexing == status = "lex" /\ ~isTerminator(Byte(buffer, str))
LexKeep == UNCHANGED << buffer, readCount, input, inpos, tree, bound, stack, cstack, retreg, out,
                        run, snap, visited, iflog >>

\* tokenize: a separator is skipped
LexSeparator ==
    /\ Lexing
    /\ isSeparator(Byte(buffer, str)) # TRI_FALSE
    /\ str' = str + 1
    /\ UNCHANGED << tokens, status, err >>
    /\ LexKeep

\* tokenize: a token is appended and the position moves past it
LexToken ==
    /\ Lexing
    /\ isSeparator(Byte(buffer, str)) = TRI_FALSE
    /\ LET t == getToken(buffer, str)
       IN /\ t.token # TOKEN_UNKNOWN
          /\ tokens' = Append(tokens, t.token)
          /\ str' = str + t.len
    /\ UNCHANGED << status, err >>
    /\ LexKeep

\* tokenize: an unknown token is a syntax error, and main prints failure
LexError ==
    /\ Lexing
    /\ isSeparator(Byte(buffer, str)) = TRI_FALSE
    /\ getToken(buffer, str).token = TOKEN_UNKNOWN
    /\ err' = Append(err, "syntax error")
    /\ status' = "failure"
    /\ UNCHANGED << str, tokens >>
    /\ LexKeep

\* tokenize: the terminator ends the loop
LexEnd ==
    /\ status = "lex"
    /\ isTerminator(Byte(buffer, str))
    /\ status' = "lexed"
    /\ UNCHANGED << str, tokens, err >>
    /\ LexKeep

\* the source texts: a keyword, after nothing or an opening parenthesis, followed by up to
\* MaxTail characters
LexChars == {"1", "a", "_", "Z", " ", "\n", "(", ")", "+", "."}
Tails == UNION {[1..n -> LexChars] : n \in 0..MaxTail}
Texts == {h \o keywordText[i] \o t : h \in {<< >>, << "(" >>}, i \in 1..Len(keywordText), t \in Tails}

LexInit ==
    /\ buffer \in Texts
    /\ str = 0
    /\ tokens = << >>
    /\ readCount = Len(buffer)
    /\ input = << >>
    /\ inpos = 0
    /\ tree = << >>
    /\ bound = << >>
    /\ stack = << >>
    /\ cstack = << >>
    /\ retreg = NoRet
    /\ out = << >>
    /\ status = "lex"
    /\ err = << >>
    /\ run = 1
    /\ snap = NoSnap
    /\ visited = << >>
    /\ iflog = {}

LexNext ==
    \/ LexSeparator
    \/ LexToken
    \/ LexError
    \/ LexEnd

LexSpec == LexInit /\ [][LexNext]_vars


\* ------------------------------------------------------------- properties

\* the handles reachable from i along child lists
RECURSIVE Reach(_, _)
Reach(tr, i) == {i} \cup UNION {Reach(tr, N(tr, i).args[k]) : k \in 1..Len(N(tr, i).args)}

\* the slot i holds a LITERAL of the value v
IsLiteralOf(tr, i, v) ==
    /\ N(tr, i).type = "ASTNODE_LITERAL"
    /\ N(tr, i).rtype = v.type
    /\ v.type = "i32" => N(tr, i).i32 = v.i32
    /\ v.type = "f32" => N(tr, i).f32 = v.f32

FirstRunDone == status = "done" /\ run = 1
Returned == status \in {"eval", "done"} /\ retreg.idx # nullidx

\* the children of the root that are not defuns, in order
RootExprs(tr) == SelectSeq(N(tr, 0).args, LAMBDA c : ~isDefun(N(tr, c)))

Pure(toks) ==
    \A k \in 1..Len(toks) : toks[k].token \notin {"TOKEN_PRINT", "TOKEN_READ_I32", "TOKEN_READ_F32"}

\* C1: when a program without print, readi32 or readf32 has been evaluated, every non-defun
\* child of the root is a LITERAL, and the last one holds the value and type eval(root) returned
C1_PureProgramFolds ==
    (FirstRunDone /\ Pure(tokens)) =>
        LET exprs == RootExprs(tree)
        IN /\ \A k \in 1..Len(exprs) : N(tree, exprs[k]).type = "ASTNODE_LITERAL"
           /\ IsLiteralOf(tree, exprs[Len(exprs)], retreg.val)

\* (fib 1 1 3) has run and left the i32 literal 5
C1_Witness ==
    /\ FirstRunDone
    /\ tokens = FibDef \o CallOf(Id("fib"), << I(1), I(1), I(3) >>)
    /\ retreg.val.type = "i32" /\ retreg.val.i32 = 5
    /\ N(tree, RootExprs(tree)[1]).i32 = 5

\* C2 as stated: after eval returns a literal value without side effect for a node that is
\* neither the root nor an INIT, the slot of that node holds a LITERAL of that value
C2_EverySlotFolds ==
    (Returned /\ retreg.idx # 0 /\ retreg.kind # "init" /\ retreg.val.literal /\ ~retreg.val.sidefx)
        => IsLiteralOf(tree, retreg.idx, retreg.val)

\* C2 amended: the slot of the node holds the LITERAL unless the node is a user call or an
\* ifzero/ifneg; for a user call the slot of the inlined LET holds it, for an if the slot of
\* the selected branch, and the slot of the call or the if is left as it was
C2_FoldInPlace ==
    (Returned /\ retreg.idx # 0 /\ retreg.kind # "init" /\ retreg.val.literal /\ ~retreg.val.sidefx)
        => IF retreg.kind \in {"call", "if"}
           THEN /\ IsLiteralOf(tree, retreg.aux, retreg.val)
                /\ N(tree, retreg.idx).type = "ASTNODE_EVAL_FUN"
           ELSE IsLiteralOf(tree, retreg.idx, retreg.val)

\* a user call returned a literal: the slot of its inlined LET holds it, the call's does not
C2_Witness ==
    /\ Returned
    /\ retreg.kind = "call"
    /\ retreg.val.literal /\ ~retreg.val.sidefx
    /\ IsLiteralOf(tree, retreg.aux, retreg.val)
    /\ ~IsLiteralOf(tree, retreg.idx, retreg.val)

\* the user call at i was evaluated in this run
EvaluatedCall(i) == KindOf(N(tree, i)) = "call" /\ i \in Range(visited)

\* C3: once a user call is inlined, no node reachable from the root lists the call among its
\* children any more, and after the run no evaluated user call is reachable from the root
C3_CallSiteReplaced ==
    run = 1 =>
        /\ \A k \in 1..Len(cstack) :
              cstack[k].pc = "inline_ret" =>
                  \A p \in Reach(tree, 0) : cstack[k].idx \notin Range(N(tree, p).args)
        /\ status = "done" => \A i \in Reach(tree, 0) : ~EvaluatedCall(i)

\* C4: after the run, for every if that was evaluated with a literal predicate the untaken
\* branch is unreachable from the root, and so is the if itself when the predicate had no
\* side effect
C4_UntakenUnreachable ==
    FirstRunDone =>
        \A r \in iflog :
            r.pred.literal =>
                /\ r.untaken \notin Reach(tree, 0)
                /\ ~r.pred.sidefx => r.idx \notin Reach(tree, 0)

\* the trees under i in t1 and under j in t2 are the same, handles of children aside
RECURSIVE SameTree(_, _, _, _)
SameTree(t1, i, t2, j) ==
    LET a == N(t1, i)
        b == N(t2, j)
    IN /\ a.type = b.type /\ a.rtype = b.rtype /\ a.name = b.name
       /\ a.i32 = b.i32 /\ a.f32 = b.f32 /\ a.eval = b.eval
       /\ Len(a.args) = Len(b.args)
       /\ \A k \in 1..Len(a.args) : SameTree(t1, a.args[k], t2, b.args[k])

SameValue(v, w) == v.type = w.type /\ v.i32 = w.i32 /\ v.f32 = w.f32

\* C5: a second eval of the rewritten root fails no assertion, returns the value and type of
\* the first, and leaves the tree reachable from the root as the first run left it
C5_Idempotent ==
    run = 2 =>
        /\ status # "abort"
        /\ status = "done" => /\ SameValue(retreg.val, snap.val)
                              /\ SameTree(tree, 0, snap.tree, 0)

Count(seq, x) == Cardinality({k \in 1..Len(seq) : seq[k] = x})
IsZeroValue(v) == IF v.type = "f32" THEN v.f32 \in {<< 0, 1 >>, << 0, -1 >>} ELSE v.i32 = 0
IsNegValue(v) == IF v.type = "f32" THEN v.f32[1] < 0 ELSE v.i32 < 0
IfReturned(r) == \A k \in 1..Len(cstack) : cstack[k].idx # r.idx

\* C6: ifzero takes its second argument iff the predicate value is zero, ifneg iff it is
\* negative, else the third; the predicate is evaluated first, the selected branch once, and
\* no node of the other branch is ever evaluated
C6_OneBranch ==
    \A r \in iflog :
        /\ r.target = INTRIN_IFZERO => (r.branch = 1 <=> IsZeroValue(r.pred))
        /\ r.target = INTRIN_IFNEG => (r.branch = 1 <=> IsNegValue(r.pred))
        /\ r.branch \in {1, 2}
        /\ Reach(tree, r.untaken) \cap Range(visited) = {}
        /\ Count(visited, r.taken) <= 1
        /\ IfReturned(r) => Count(visited, r.taken) = 1
        /\ \A k \in 1..Len(visited) :
              visited[k] = r.taken =>
                  /\ k > r.seen
                  /\ \E j \in 1..r.seen : visited[j] = r.predNode

\* an evaluated ifneg met a negative predicate and left the print of its third argument alone
C6_Witness ==
    /\ FirstRunDone
    /\ out = << >>
    /\ \E r \in iflog :
          /\ r.target = INTRIN_IFNEG /\ r.branch = 1 /\ IsNegValue(r.pred)
          /\ KindOf(N(tree, r.untaken)) = "print"
          /\ r.taken \in Range(visited)

\* ------------------------------------------------------ reference semantics
RefVal(type, i32, f32) == [type |-> type, i32 |-> i32, f32 |-> f32]
AsF32(v) == IF v.type = "f32" THEN v.f32 ELSE << v.i32, 1 >>

\* the quotient truncated toward zero, b # 0
RefQuot(a, b) ==
    CHOOSE q \in (-Abs(a))..Abs(a) :
        /\ Abs(q) * Abs(b) <= Abs(a)
        /\ Abs(a) < (Abs(q) + 1) * Abs(b)
        /\ q > 0 => (a < 0) = (b < 0)
        /\ q < 0 => (a < 0) # (b < 0)

RefIntOp(op, a, b) ==
    CASE op = INTRIN_PLUS -> a + b
      [] op = INTRIN_MINUS -> a - b
      [] op = INTRIN_MUL -> a * b
      [] op = INTRIN_DIV -> RefQuot(a, b)

\* acc := op(acc, arg) over the first k values: integer while every value so far is i32,
\* float from the first f32 on
RECURSIVE RefFold(_, _, _)
RefFold(op, vals, k) ==
    IF k = 1 THEN RefVal(vals[1].type, IF vals[1].type = "i32" THEN vals[1].i32 ELSE 0,
                         IF vals[1].type = "f32" THEN vals[1].f32 ELSE FZero)
    ELSE LET acc == RefFold(op, vals, k - 1)
         IN IF acc.type = "i32" /\ vals[k].type = "i32"
            THEN RefVal("i32", RefIntOp(op, acc.i32, vals[k].i32), FZero)
            ELSE RefVal("f32", 0, binop_f32(op, AsF32(acc), AsF32(vals[k])))

\* op applied left to right to all of the first k values, each taken as a float
RECURSIVE RefFoldF32(_, _, _)
RefFoldF32(op, vals, k) ==
    IF k = 1 THEN AsF32(vals[1])
    ELSE binop_f32(op, RefFoldF32(op, vals, k - 1), AsF32(vals[k]))

\* the literal children of the arith node at i, as the binder left them
BoundLiterals(i) ==
    /\ i < Len(bound)
    /\ N(bound, i).type = "ASTNODE_EVAL_FUN"
    /\ \A k \in 1..Len(N(bound, i).args) : N(bound, N(bound, i).args[k]).type = "ASTNODE_LITERAL"

C8_AllArgsAsFloat ==
    (Returned /\ retreg.kind = "arith"
        /\ \E k \in 1..Len(retreg.argvals) : retreg.argvals[k].type = "f32") =>
        /\ retreg.val.type = "f32"
        /\ retreg.val.f32 = RefFoldF32(retreg.target, retreg.argvals, Len(retreg.argvals))

\* the state the reference evaluation threads: what was printed, what was read, and whether
\* it is still defined
RefState(ok, o, pos) == [ok |-> ok, out |-> o, inpos |-> pos]
RefRet(s, v) == [ok |-> s.ok, out |-> s.out, inpos |-> s.inpos, val |-> v]
RefFail(s) == [ok |-> FALSE, out |-> s.out, inpos |-> s.inpos, val |-> RefVal("none", 0, FZero)]
RefStart(s) == [ok |-> s.ok, out |-> s.out, inpos |-> s.inpos, vals |-> << >>]
RefLine(v) ==
    IF v.type = "f32" THEN [fmt |-> "%f", i32 |-> 0, f32 |-> v.f32]
    ELSE [fmt |-> "%d", i32 |-> v.i32, f32 |-> FZero]

\* integer division by zero somewhere in the fold of vals
RefTraps(op, vals) ==
    /\ op = INTRIN_DIV
    /\ \E k \in 2..Len(vals) :
          /\ vals[k].type = "i32" /\ vals[k].i32 = 0
          /\ \A j \in 1..(k - 1) : vals[j].type = "i32"

\* the variables the INITs (or parameters) inits introduce, bound to vals
Bindings(inits, vals) ==
    [k \in 1..Len(inits) |-> [name |-> N(bound, inits[k]).eval, val |-> vals[k]]]

\* the meaning of the program the binder accepted, by structural recursion over `bound`:
\* a LET evaluates its initialisers in order in the incoming environment, binds them, then
\* evaluates its body expressions in order; a call evaluates its arguments left to right,
\* an if its predicate and then the selected branch, a user call its arguments and then the
\* body of the callee with the parameters bound to them
RECURSIVE RefEval(_, _, _, _)
RECURSIVE RefArgs(_, _, _, _, _)
RefArgs(args, k, env, s, fuel) ==
    IF k > Len(args) \/ ~s.ok THEN s
    ELSE LET e == RefEval(args[k], env, s, fuel)
         IN RefArgs(args, k + 1, env,
                    [ok |-> e.ok, out |-> e.out, inpos |-> e.inpos, vals |-> Append(s.vals, e.val)],
                    fuel)

RefEval(i, env, s, fuel) ==
    LET n == N(bound, i)
        kind == KindOf(n)
        inits == SelectSeq(n.args, LAMBDA c : isInitialize(N(bound, c)))
        exprs == SelectSeq(n.args, LAMBDA c : ~isInitialize(N(bound, c)) /\ ~isDefun(N(bound, c)))
    IN IF fuel = 0 \/ ~s.ok THEN RefFail(s)
       ELSE CASE kind = "literal" ->
                    RefRet(s, RefVal(n.rtype, IF n.rtype = "i32" THEN n.i32 ELSE 0,
                                     IF n.rtype = "f32" THEN n.f32 ELSE FZero))
              [] kind = "var" ->
                    LET hits == {k \in 1..Len(env) : env[k].name = n.eval}
                    IN IF hits = {} THEN RefFail(s)
                       ELSE RefRet(s, env[CHOOSE k \in hits : \A j \in hits : j <= k].val)
              [] kind = "let" ->
                    LET a == RefArgs([k \in 1..Len(inits) |-> N(bound, inits[k]).args[1]], 1, env,
                                     RefStart(s), fuel - 1)
                    IN IF ~a.ok THEN RefFail(a)
                       ELSE LET b == RefArgs(exprs, 1, env \o Bindings(inits, a.vals),
                                             RefStart(a), fuel - 1)
                                vals == a.vals \o b.vals
                            IN IF ~b.ok \/ vals = << >> THEN RefFail(b)
                               ELSE RefRet(b, vals[Len(vals)])
              [] kind = "arith" ->
                    LET a == RefArgs(n.args, 1, env, RefStart(s), fuel - 1)
                    IN IF ~a.ok \/ RefTraps(n.eval, a.vals) THEN RefFail(a)
                       ELSE RefRet(a, RefFold(n.eval, a.vals, Len(a.vals)))
              [] kind = "if" ->
                    LET p == RefEval(n.args[1], env, s, fuel - 1)
                    IN IF ~p.ok THEN p
                       ELSE IF \/ n.eval = INTRIN_IFZERO /\ IsZeroValue(p.val)
                               \/ n.eval = INTRIN_IFNEG /\ IsNegValue(p.val)
                            THEN RefEval(n.args[2], env, RefState(TRUE, p.out, p.inpos), fuel - 1)
                            ELSE RefEval(n.args[3], env, RefState(TRUE, p.out, p.inpos), fuel - 1)
              [] kind = "print" ->
                    LET a == RefEval(n.args[1], env, s, fuel - 1)
                    IN IF ~a.ok THEN a ELSE [a EXCEPT !.out = Append(@, RefLine(a.val))]
              [] kind = "read" ->
                    IF s.inpos < Len(input) /\ input[s.inpos + 1].ok
                    THEN [ok |-> TRUE, out |-> s.out, inpos |-> s.inpos + 1,
                          val |-> IF n.eval = INTRIN_READ_I32
                                  THEN RefVal("i32", input[s.inpos + 1].v, FZero)
                                  ELSE RefVal("f32", 0, << input[s.inpos + 1].v, 1 >>)]
                    ELSE RefFail(s)
              [] kind = "call" ->
                    LET d == N(bound, n.eval)
                        params == SelectSeq(d.args, LAMBDA c : isInitialize(N(bound, c)))
                        body == SelectSeq(d.args, LAMBDA c : ~isInitialize(N(bound, c))
                                                              /\ ~isDefun(N(bound, c)))
                        a == RefArgs(n.args, 1, env, RefStart(s), fuel - 1)
                    IN IF ~a.ok \/ Len(a.vals) # Len(params) THEN RefFail(a)
                       ELSE LET b == RefArgs(body, 1, env \o Bindings(params, a.vals),
                                             RefStart(a), fuel - 1)
                            IN IF ~b.ok \/ b.vals = << >> THEN RefFail(b)
                               ELSE RefRet(b, b.vals[Len(b.vals)])

\* the reference evaluation of the whole program on the run's stdin
RefRun == RefEval(0, << >>, RefState(TRUE, << >>, 0), MaxNodes)

PrintsEntered == Cardinality({k \in 1..Len(visited) : KindOf(N(tree, visited[k])) = "print"})
PrintsPending == Cardinality({k \in 1..Len(cstack) : cstack[k].kind = "print"})

\* C9: print returns the value of its argument with sidefx set and nothing else changed; there
\* is one output line per print that was evaluated; and the lines of a run are the lines of
\* the prints met in evaluation order (initialisers before body, arguments left to right,
\* predicate before the selected branch, call arguments before the callee's body)
C9_PrintOrder ==
    /\ (Returned /\ retreg.kind = "print") =>
          /\ Len(retreg.argvals) = 1
          /\ retreg.val = [retreg.argvals[1] EXCEPT !.sidefx = TRUE]
    /\ Len(out) = PrintsEntered - PrintsPending
    /\ FirstRunDone => (RefRun.ok /\ out = RefRun.out)

\* the printing fib of (fib 1 1 3) wrote 1 1 2 3 5
C9_Witness ==
    /\ FirstRunDone
    /\ tokens = FibPrintDef \o CallOf(Id("fib"), << I(1), I(1), I(3) >>)
    /\ out = [k \in 1..5 |-> [fmt |-> "%d", i32 |-> << 1, 1, 2, 3, 5 >>[k], f32 |-> FZero]]

\* C10: the value a readi32 or readf32 node returns has sidefx set and literal clear, and is
\* an i32 for readi32 and an f32 for readf32
C10_ReadFlags ==
    (Returned /\ retreg.kind = "read") =>
        /\ retreg.val.sidefx
        /\ ~retreg.val.literal
        /\ retreg.val.type = (IF retreg.target = INTRIN_READ_I32 THEN "i32" ELSE "f32")

\* the handles above i along parent links
RECURSIVE Ancestors(_, _)
Ancestors(tr, i) ==
    IF N(tr, i).parent = nullidx THEN {}
    ELSE {N(tr, i).parent} \cup Ancestors(tr, N(tr, i).parent)

\* the binder accepted the program: eval(0, tree, stack) was entered
Bound == cstack # << >> \/ status = "done"
EvalVars(tr) == {v \in Reach(tr, 0) : N(tr, v).type = "ASTNODE_EVAL_VAR"}

\* C11: an identifier anywhere inside the initialiser of a let binding is never bound to an
\* INIT of that same let, and evaluating it finds the frame of the binding it was bound to
C11_InitScope ==
    /\ Bound =>
          \A v \in EvalVars(bound) : \A a \in Ancestors(bound, v) :
              N(bound, a).type = "ASTNODE_INIT" =>
                  N(bound, N(bound, v).eval).parent # N(bound, a).parent
    /\ ~(status \in {"abort", "crash"} /\ cstack # << >> /\ KindOf(node) = "var")

\* the positions among the children of the LET activation f of an INIT whose frame is keyed h
Declares(f, h) ==
    {k \in 1..Len(N(tree, f.idx).args) :
        /\ N(tree, N(tree, f.idx).args[k]).type = "ASTNODE_INIT"
        /\ N(tree, N(tree, f.idx).args[k]).eval = h}

\* the activations of a LET declaring h that are past their initialisers
Activations(h) ==
    {j \in 1..Len(cstack) : cstack[j].pc \in {"let_body", "let_body_ret"} /\ Declares(cstack[j], h) # {}}

\* C12: when an EVAL_VAR is evaluated the var stack holds a frame keyed by its eval-target, and
\* the top-most such frame is the one pushed for that binding by the innermost activation,
\* past its initialisers, of the let or function that declares it
C12_VarFrame ==
    Entering("var") =>
        /\ FindVar(stack, node.eval) # 0
        /\ Activations(node.eval) # {}
        /\ LET j == CHOOSE a \in Activations(node.eval) : \A b \in Activations(node.eval) : b <= a
           IN \E k \in Declares(cstack[j], node.eval) :
                 FindVar(stack, node.eval) = cstack[j].stackRestore + k

\* the argument counts the language allows a call of h
ArityAllowed(h, n) ==
    CASE h \in ArithOps -> n >= 2
      [] h \in {IFZERO, IFNEG} -> n = 3
      [] h = PRINT -> n = 1
      [] h \in {READI32, READF32} -> n = 0
      [] OTHER -> n = 2

NotEvaluated == cstack = << >> /\ visited = << >> /\ out = << >> /\ retreg = NoRet

\* the program ended in the error exit with msg as its first diagnostic, and was not evaluated
Rejected(msg) == status = "failure" /\ err # << >> /\ err[1] = msg /\ NotEvaluated

\* C13: a call with an allowed number of arguments is bound; a call with any other number
\* (print without an argument included) ends in the diagnosed parse error, without an
\* access outside the tree and without evaluation
C13_Arity ==
    \A h \in ArityHeads : \A n \in 0..MaxArgs :
        (tokens = ArityProg(h, n) /\ status # "start") =>
            IF ArityAllowed(h, n)
            THEN Bound
            ELSE Rejected("invalid function call")

\* the number of parent links from i up to its ancestor a
RECURSIVE Dist(_, _, _)
Dist(tr, i, a) == IF N(tr, i).parent = a THEN 1 ELSE 1 + Dist(tr, N(tr, i).parent, a)

UserCalls(tr) ==
    {c \in Reach(tr, 0) : N(tr, c).type = "ASTNODE_EVAL_FUN" /\ N(tr, c).eval \notin -10..-2}

\* the defuns of the name of the call c that exist when c is closed and are an enclosing
\* named LET or a direct child of an enclosing LET
Candidates(tr, c) ==
    {d \in 0..(c - 1) :
        /\ N(tr, d).type = "ASTNODE_LET"
        /\ N(tr, d).name = N(tr, c).name
        /\ d \in Ancestors(tr, c) \/ N(tr, d).parent \in Ancestors(tr, c)}

\* how far outward from the call c the definition d is met
Level(tr, c, d) ==
    IF d \in Ancestors(tr, c) THEN Dist(tr, c, d) ELSE Dist(tr, c, N(tr, d).parent)

\* C14: every call of a bound program targets a defun of its name that existed when the call
\* was closed, as an enclosing named LET or a direct child of an enclosing LET, and no such
\* defun is met earlier walking outward; a call with no such defun, a forward reference
\* included, is rejected as an unknown function call and nothing is evaluated
C14_CallResolution ==
    /\ Bound =>
          \A c \in UserCalls(bound) :
              /\ N(bound, c).eval \in Candidates(bound, c)
              /\ \A d \in Candidates(bound, c) : Level(bound, c, N(bound, c).eval) <= Level(bound, c, d)
    /\ (status # "start" /\ bound # << >> /\ \E c \in UserCalls(bound) : Candidates(bound, c) = {}) =>
          Rejected("unknown function call")
    /\ (tokens \in ForwardProgs /\ status # "start") =>
          Rejected("unknown function call")

\* the call of g in the body of f was bound to the g defined inside f, not to the g of the root
C14_Witness ==
    /\ FirstRunDone
    /\ tokens = G1 \o Defun("f", << Id("x") >>, G2 \o CallOf(Id("g"), << Id("x") >>))
                   \o CallOf(PRINT, CallOf(Id("f"), << I(0) >>))
    /\ \E c \in UserCalls(bound) :
          /\ N(bound, c).name = "g"
          /\ Cardinality(Candidates(bound, c)) = 2
          /\ N(bound, N(bound, c).eval).parent # 0
    /\ out = << [fmt |-> "%d", i32 |-> 2, f32 |-> FZero] >>

Defuns(tr) == {d \in Reach(tr, 0) : isDefun(N(tr, d))}

\* C15: a defun written in the root, in a let body or in the body of another defun is bound,
\* and its parent is a LET; a defun written as the initialiser of a let binding or as an
\* argument of a call is rejected as a misplaced defun and nothing is evaluated
C15_DefunPlace ==
    /\ Bound => \A d \in Defuns(bound) : N(bound, N(bound, d).parent).type = "ASTNODE_LET"
    /\ \A place \in DefunPlaces :
          (tokens = DefunAt(place) /\ status # "start") =>
              IF place \in {"root", "let body", "defun body"}
              THEN Bound /\ Defuns(bound) # {}
              ELSE Rejected("misplaced defun")

\* the defun written in the body of another defun was bound and called
C15_Witness ==
    /\ FirstRunDone
    /\ tokens = DefunAt("defun body")
    /\ \E d \in Defuns(bound) : N(bound, d).name = "g" /\ N(bound, N(bound, d).parent).name = "f"
    /\ retreg.val.i32 = 1

\* the exit status of the process once main has ended (-1 while it runs)
ExitCode ==
    CASE status \in {"done", "empty"} -> 0
      [] status = "failure" -> 255
      [] status \in {"abort", "fpe", "crash"} -> 128
      [] OTHER -> -1

\* the index of the parenthesis closing the one opened before k, at nesting depth
RECURSIVE CloseOf(_, _, _)
CloseOf(toks, k, depth) ==
    IF k > Len(toks) THEN k
    ELSE IF toks[k].token = "TOKEN_PARENTHESIS_L" THEN CloseOf(toks, k + 1, depth + 1)
    ELSE IF toks[k].token = "TOKEN_PARENTHESIS_R"
         THEN (IF depth = 1 THEN k ELSE CloseOf(toks, k + 1, depth - 1))
    ELSE CloseOf(toks, k + 1, depth)

\* from token k on the text holds nothing but defun forms
RECURSIVE OnlyDefuns(_, _)
OnlyDefuns(toks, k) ==
    IF k > Len(toks) THEN TRUE
    ELSE /\ toks[k].token = "TOKEN_PARENTHESIS_L"
         /\ k < Len(toks)
         /\ toks[k + 1].token = "TOKEN_DEFUN"
         /\ OnlyDefuns(toks, CloseOf(toks, k + 1, 1) + 1)

\* C16: an input without a body expression at the root (no byte at all, separators only,
\* defuns only) ends in the error exit without evaluation, and the exit status is 0 only
\* after a successful parse and evaluation
C16_NoBodyRejected ==
    /\ (OnlyDefuns(tokens, 1) /\ status # "start") => (ExitCode = 255 /\ NotEvaluated)
    /\ ExitCode = 0 => (Bound /\ status = "done")

\* the return-type tag of the last non-definition child of the root
RootTag(tr) == N(tr, RootExprs(tr)[Len(RootExprs(tr))]).rtype

\* C17 as stated: after a successful run the type of the value eval(root) returned is the
\* return-type tag of the last non-definition child of the rewritten root
C17_RootTagIsValueType ==
    FirstRunDone => RootTag(tree) = retreg.val.type

\* C17: after a successful run the return-type tag of the last non-definition child of the
\* rewritten root is the type of the value eval(root) returned, unless that value is
\* incoherent, and then the tag is unknown
C17_RootTag ==
    FirstRunDone => RootTag(tree) = (IF retreg.val.incoh THEN "unknown" ELSE retreg.val.type)

\* an ifzero on a read predicate with an i32 and an f32 branch returned the f32 branch
C17_Witness ==
    /\ FirstRunDone
    /\ tokens = CallOf(IFZERO, CallOf(READI32, << >>) \o << I(1), F(2, 1) >>)
    /\ retreg.val.type = "f32"
    /\ retreg.val.incoh
    /\ RootTag(tree) = "unknown"

\* the leading INIT children of the LETs above v along parent links
ScopeInits(tr, v) ==
    UNION {{N(tr, a).args[k] : k \in 1..LeadingInits(tr, N(tr, a).args, 1)} :
              a \in {b \in Ancestors(tr, v) : N(tr, b).type = "ASTNODE_LET"}}

\* C18 as stated: after binding and after evaluation, the eval-target of every EVAL_VAR
\* reachable from the root is the handle of a leading INIT of a LET above it
C18_TargetIsScopeInit ==
    /\ Bound => \A v \in EvalVars(bound) : N(bound, v).eval \in ScopeInits(bound, v)
    /\ FirstRunDone => \A v \in EvalVars(tree) : N(tree, v).eval \in ScopeInits(tree, v)

\* C18: after binding and after evaluation, the eval-target of every EVAL_VAR reachable from
\* the root is the eval-target of a leading INIT of a LET above it along parent links; for
\* the arena the binder leaves, that is the handle of the INIT itself
C18_TargetInScope ==
    /\ Bound => \A v \in EvalVars(bound) :
          /\ N(bound, v).eval \in ScopeInits(bound, v)
          /\ N(bound, N(bound, v).eval).eval = N(bound, v).eval
    /\ FirstRunDone => \A v \in EvalVars(tree) :
          \E i \in ScopeInits(tree, v) : N(tree, i).eval = N(tree, v).eval

\* an EVAL_VAR of an inlined copy is left in the tree after the run: the INIT its eval-target
\* names is a parameter of the defun, and the INIT above it is the copy with the same target
C18_Witness ==
    /\ FirstRunDone
    /\ \E v \in EvalVars(tree) :
          /\ N(tree, v).eval \notin ScopeInits(tree, v)
          /\ isDefun(N(tree, N(tree, N(tree, v).eval).parent))
          /\ \E i \in ScopeInits(tree, v) : i # N(tree, v).eval /\ N(tree, i).eval = N(tree, v).eval

\* an activation of eval returns in this step
Returns == cstack # << >> /\ Len(cstack') = Len(cstack) - 1

\* the frames of the LET activations past their initialisers carry the eval-targets of the
\* LET's leading INITs, in order, right above the height saved on entry
NamedInOrder ==
    \A j \in 1..Len(cstack) :
        cstack[j].pc \in {"let_body", "let_body_ret"} =>
            LET args == N(tree, cstack[j].idx).args
                inits == LeadingInits(tree, args, 1)
            IN /\ Len(stack) >= cstack[j].stackRestore + inits
               /\ \A k \in 1..inits :
                     stack[cstack[j].stackRestore + k].name = N(tree, args[k]).eval
               /\ (j = Len(cstack) /\ cstack[j].pc = "let_body") =>
                     Len(stack) = cstack[j].stackRestore + inits

\* C19: no step of an activation changes a frame at or below the height the var stack had
\* when the activation was entered; when an activation returns the height is the one on
\* entry, plus one if the node is an INIT; the stack is empty when eval(root) returns; and
\* the frames a LET names are exactly its INITs, in order
C19_StackBalance ==
    /\ [](status = "done" => stack = << >>)
    /\ [](~(status = "abort" /\ cstack # << >> /\ top.pc = "let_init"))
    /\ []NamedInOrder
    /\ [][/\ cstack # << >> =>
                SubSeq(stack', 1, top.stackRestore) = SubSeq(stack, 1, top.stackRestore)
          /\ Returns =>
                Len(stack') = top.stackRestore + (IF retreg'.kind = "init" THEN 1 ELSE 0)]_vars

\* three activations of fib are past their initialisers, each with its three frames named
C19_Witness ==
    /\ Running
    /\ Len(stack) = 9
    /\ \A k \in 1..9 : stack[k].name # nullidx
    /\ Cardinality({j \in 1..Len(cstack) : cstack[j].pc = "let_body_ret"}) >= 3

\* (defun fib(x y n) (ifzero n y (fib y (+ x y) (- n 1)))) (fib 1 1 n)
FibOf(n) == FibDef \o CallOf(Id("fib"), << I(1), I(1), I(n) >>)

\* how many calls of fib were inlined in this run
FibInlined ==
    Cardinality({k \in 1..Len(visited) :
                    /\ N(tree, visited[k]).type = "ASTNODE_EVAL_FUN"
                    /\ N(tree, visited[k]).name = "fib"})

\* C20: for every literal n from 0 to MaxFib the evaluation of (fib 1 1 n), once begun, eventually returns;
\* it has then inlined fib n + 1 times, and never more on the way; and for n = 0 no node of
\* the branch that holds the recursive call is ever entered
C20_FibTerminates ==
    /\ (tokens \in {FibOf(n) : n \in 0..MaxFib} /\ status = "eval" /\ run = 1) ~> FirstRunDone
    /\ [](\A n \in 0..MaxFib :
            (tokens = FibOf(n) /\ run = 1) =>
                /\ FibInlined <= n + 1
                /\ FirstRunDone => FibInlined = n + 1)
    /\ [](tokens = FibOf(0) =>
            \A e \in iflog : Reach(tree, e.untaken) \cap Range(visited) = {})

\* (fib 1 1 MaxFib) has returned after MaxFib + 1 inlinings
C20_Witness ==
    /\ FirstRunDone
    /\ tokens = FibOf(MaxFib)
    /\ FibInlined = MaxFib + 1
    /\ retreg.val.type = "i32"

\* evalArith has taken both operands of a two-operand + and is about to return
SumReady == At("arith_loop") /\ top.target = INTRIN_PLUS /\ Len(node.args) = 2 /\ top.it = 2

\* C21 as stated: the value a two-operand + returns has type f32 iff at least one of its two
\* operand nodes carries the return-type tag f32
C21_StaticPromotion ==
    SumReady =>
        (ArithValue(top).type = "f32" <=> \E k \in 1..2 : N(tree, node.args[k]).rtype = "f32")

\* C21 amended: the value has type f32 iff at least one of the two operand values has; an
\* operand node carries the type of its value as its tag unless the value is incoherent, and
\* then it carries unknown
C21_Promotion ==
    SumReady =>
        /\ ArithValue(top).type = "f32" <=> \E k \in 1..2 : top.argvals[k].type = "f32"
        /\ \A k \in 1..2 :
              N(tree, node.args[k]).rtype =
                  IF top.argvals[k].incoh THEN "unknown" ELSE top.argvals[k].type

\* a sum of the i32 1 and an if that returned the f32 2.5 incoherently is about to return f32
C21_Witness ==
    /\ SumReady
    /\ ArithValue(top).type = "f32"
    /\ \E k \in 1..2 : top.argvals[k].incoh /\ top.argvals[k].type = "f32"
    /\ \A k \in 1..2 : N(tree, node.args[k]).rtype # "f32"

\* an if has just returned whose predicate value was literal with sidefx set
IfLetReturned ==
    /\ Returned
    /\ retreg.kind = "if"
    /\ retreg.argvals[1].literal /\ retreg.argvals[1].sidefx

\* C22: when an ifzero/ifneg returns whose predicate value was literal with sidefx set, its
\* slot holds an anonymous LET with the parent the if had and exactly two children: first a
\* node evaluated for the predicate, then the node the selected branch was evaluated at; the
\* untaken branch is not among them, and the value returned is the branch's with sidefx set
C22_IfBecomesLet ==
    IfLetReturned =>
        LET n == N(tree, retreg.idx)
            br == retreg.argvals[2]
        IN /\ n.type = "ASTNODE_LET" /\ n.name = ""
           /\ Len(n.args) = 2
           /\ n.args[2] = retreg.aux
           /\ \A r \in iflog :
                 r.idx = retreg.idx =>
                    /\ n.parent = r.parent
                    /\ r.untaken \notin Range(n.args)
                    /\ \E j \in 1..r.seen : visited[j] = n.args[1]
                    /\ \E j \in (r.seen + 1)..Len(visited) : visited[j] = n.args[2]
           /\ SameValue(retreg.val, br)
           /\ retreg.val.sidefx
           /\ retreg.val.literal = br.literal /\ retreg.val.incoh = br.incoh

\* (ifzero (print 0) 1 2) returned the literal 1 with sidefx set from a LET of two children
C22_Witness ==
    /\ IfLetReturned
    /\ tokens = CallOf(IFZERO, CallOf(PRINT, << I(0) >>) \o << I(1), I(2) >>)
    /\ N(tree, retreg.idx).type = "ASTNODE_LET"
    /\ KindOf(N(tree, N(tree, retreg.idx).args[1])) = "print"
    /\ IsLiteralOf(tree, N(tree, retreg.idx).args[2], retreg.val)
    /\ retreg.val.i32 = 1 /\ retreg.val.sidefx /\ retreg.val.literal

\* an if has just returned whose predicate value was not literal
IfKeptReturned == Returned /\ retreg.kind = "if" /\ ~retreg.argvals[1].literal

\* C23: when an ifzero/ifneg returns whose predicate value was not literal, its slot still
\* holds the EVAL-FUN with three children; its tag is unknown if the tags its two branches had
\* before the branch was evaluated differ, and their common tag otherwise; and the incoh flag
\* of the value is that of the branch's value, or set if those tags differ
C23_KeptIfType ==
    IfKeptReturned =>
        LET n == N(tree, retreg.idx)
        IN \A r \in iflog :
              r.idx = retreg.idx =>
                 /\ n.type = "ASTNODE_EVAL_FUN" /\ n.eval = r.target /\ Len(n.args) = 3
                 /\ n.rtype = IF r.rtypes[1] # r.rtypes[2] THEN "unknown" ELSE r.rtypes[1]
                 /\ retreg.val.incoh = (retreg.argvals[2].incoh \/ r.rtypes[1] # r.rtypes[2])

Inits(tr) == {i \in 0..(Len(tr) - 1) : N(tr, i).type = "ASTNODE_INIT"}
StackClean == \A k \in 1..Len(stack) : ~stack[k].val.sidefx /\ ~stack[k].val.incoh

\* C24 as stated: no frame of the var stack has sidefx or incoh set, and after a run every
\* INIT of the arena has exactly one child
C24_InitOneChild ==
    /\ StackClean
    /\ FirstRunDone => \A i \in Inits(tree) : Len(N(tree, i).args) = 1

\* C24 amended: no frame of the var stack ever has sidefx or incoh set; no step changes the
\* kind of an INIT or the number of its children; and in a bound program an INIT has exactly
\* one child, except that a parameter of a defun (a child of a named LET) has none
C24_InitsStay ==
    /\ [](StackClean)
    /\ [](Bound =>
            \A i \in Inits(tree) :
                Len(N(tree, i).args) = IF isDefun(N(tree, N(tree, i).parent)) THEN 0 ELSE 1)
    /\ [][\A i \in Inits(tree) :
            /\ i < Len(tree')
            /\ N(tree', i).type = "ASTNODE_INIT"
            /\ Len(N(tree', i).args) = Len(N(tree, i).args)]_vars

\* an INIT has returned whose initialiser folded to a LITERAL: the INIT is still one, with
\* that literal as its child, and the frame it pushed holds the value
C24_Witness ==
    /\ Returned /\ retreg.kind = "init"
    /\ retreg.idx < Len(bound)
    /\ N(tree, retreg.idx).type = "ASTNODE_INIT"
    /\ Len(N(tree, retreg.idx).args) = 1
    /\ N(bound, N(bound, retreg.idx).args[1]).type = "ASTNODE_EVAL_FUN"
    /\ IsLiteralOf(tree, N(tree, retreg.idx).args[1], retreg.val)
    /\ stack # << >> /\ SameValue(stack[Len(stack)].val, retreg.val)

\* the positions among the first n children of the node at i that do not hold a defun
NotDefunPositions(i, n) == {p \in 1..n : ~isDefun(N(tree, N(tree, i).args[p]))}

\* a LET has evaluated its last child and is about to return
LetReady == At("let_body") /\ top.kind = "let" /\ top.it = Len(node.args)

\* C25: a LET evaluates its children from left to right, the INITs first, each child that is
\* not a named LET exactly once and no named LET; no node that is a named LET or lies under
\* one is ever entered; and the value a LET returns is the value of the last child it
\* evaluated, which is not an INIT, with sidefx set iff some evaluated child's value had it
C25_LetEvaluation ==
    /\ [](\A k \in 1..Len(cstack) :
            LET f == cstack[k]
                upto == f.it + (IF f.pc \in {"let_init_ret", "let_body_ret"} THEN 1 ELSE 0)
            IN f.kind = "let" =>
                  /\ Range(f.kids) = NotDefunPositions(f.idx, upto)
                  /\ \A a, b \in 1..Len(f.kids) : a < b => f.kids[a] < f.kids[b]
                  /\ Len(f.argvals) = Cardinality(NotDefunPositions(f.idx, f.it))
                  /\ f.pc \in {"let_body", "let_body_ret"} =>
                        \A p \in 1..Len(N(tree, f.idx).args) :
                            isInitialize(N(tree, N(tree, f.idx).args[p])) => p \in Range(f.kids))
    /\ [](\A k \in 1..Len(visited) :
            /\ ~isDefun(N(tree, visited[k]))
            /\ \A a \in Ancestors(tree, visited[k]) : ~isDefun(N(tree, a)))
    /\ [][(LetReady /\ status' # "abort") =>
            LET vals == top.argvals
                last == vals[Len(vals)]
            IN /\ vals # << >>
               /\ ~isInitialize(N(tree, node.args[top.kids[Len(vals)]]))
               /\ retreg'.idx = top.idx
               /\ retreg'.val =
                     [last EXCEPT !.sidefx = \E j \in 1..Len(vals) : vals[j].sidefx]]_vars

\* the let of two initialisers, two defuns and two body expressions is about to return the
\* literal 7 with sidefx set by its first initialiser, having skipped both defuns
C25_Witness ==
    /\ LetReady
    /\ Len(node.args) = 6
    /\ top.kids = << 1, 2, 4, 5 >>
    /\ top.argvals[1].sidefx /\ ~top.argvals[4].sidefx
    /\ top.ret.i32 = 7 /\ top.ret.literal
    /\ top.sidefx

\* ------------------------------------------------------------------ lexer
KeywordTokens == {keywords[i].token : i \in 1..Len(keywords)}
KeywordOf(t) == CHOOSE i \in 1..Len(keywords) : keywords[i].token = t.token
\* the keywords that end with an identifier character: all but ( ) + - * /
WordKeywords == {i \in 1..Len(keywords) : isAllowedIdentifier(keywordText[i][Len(keywordText[i])])}
Appended == tokens' = Append(tokens, tokens'[Len(tokens')])
LastToken(toks) == toks[Len(toks)]

Lets(tr) == {n \in Reach(tr, 0) : N(tr, n).type = "ASTNODE_LET"}
\* the number of INITs the child list a starts with
RECURSIVE InitRun(_, _, _)
InitRun(tr, a, k) == IF k < Len(a) /\ isInitialize(N(tr, a[k + 1])) THEN InitRun(tr, a, k + 1) ELSE k
LetShape(tr, n) ==
    LET a == N(tr, n).args
        k == InitRun(tr, a, 0)
    IN /\ \A j \in (k + 1)..Len(a) : ~isInitialize(N(tr, a[j]))
       /\ \E j \in (k + 1)..Len(a) : ~isDefun(N(tr, a[j]))

\* C27: after binding, and in the tree reachable from the root during and after evaluation, the children
\* of every LET (parsed let, defun, inlined LET, LET made from an if with side effects) are a
\* possibly empty leading run of INITs, then a tail without an INIT that holds at least one
\* child that is not a named LET.
C27_LetShape ==
    /\ Bound => \A n \in Lets(bound) : LetShape(bound, n)
    /\ Bound => \A n \in Lets(tree) : LetShape(tree, n)

\* a run has ended with, under the root, a defun, an inlined LET whose INITs hold the call's
\* arguments, a parsed let or an if turned into a LET
InlinedLets(tr) ==
    {n \in Lets(tr) : n >= Len(bound) /\ InitRun(tr, N(tr, n).args, 0) > 0
                      /\ \A k \in 1..InitRun(tr, N(tr, n).args, 0) : N(tr, N(tr, n).args[k]).args # << >>}
C27_Witness ==
    /\ FirstRunDone
    /\ InlinedLets(tree) # {}
    /\ \E d \in Lets(tree) : isDefun(N(tree, d)) /\ InitRun(tree, N(tree, d).args, 0) > 0
    /\ \E n \in Lets(tree) : n # 0 /\ ~isDefun(N(tree, n)) /\ n \notin InlinedLets(tree)

\* ------------------------------------------------------- parent and child
ParentsAgree(tr) ==
    \A n \in Reach(tr, 0) : \A k \in 1..Len(N(tr, n).args) : N(tr, N(tr, n).args[k]).parent = n

\* C28: after binding, and after evaluation, every child handle of every node reachable from
\* the root names a node whose parent handle is that node; so for the arguments attached to
\* the INITs of an inlined LET, for a branch spliced in place of an elided if and for the
\* nodes copySubtree made.
C28_ParentsAgree ==
    /\ Bound => ParentsAgree(bound)
    /\ status = "done" => ParentsAgree(tree)

\* ------------------------------------------------- behaviour of the rewrite
\* the print and read calls eval was entered for in this run
Executed(tr) ==
    {i \in Range(visited) : /\ N(tr, i).type = "ASTNODE_EVAL_FUN"
                            /\ N(tr, i).eval \in {INTRIN_PRINT} \cup ReadTargets}

\* C29: evaluating the rewritten tree prints the same lines, consumes as many input values and
\* returns the same value as the first evaluation; a print or read call that was executed is
\* still in the tree reachable from the root when the evaluation ends.
C29_RewritePreserves ==
    /\ (run = 2 /\ status # "eval") =>
          /\ status = "done"
          /\ out = snap.out
          /\ inpos = snap.inpos
          /\ SameValue(retreg.val, snap.val)
    /\ FirstRunDone => Executed(tree) \subseteq Reach(tree, 0)

\* ------------------------------------------------- function definitions
\* the nodes of the subtree of d are in tr what the binder made them
Untouched(tr, d) == \A i \in Reach(bound, d) : N(tr, i) = N(bound, i)

\* eval is about to inline the call it was entered for
Inlining == cstack # << >> /\ Len(tree') > Len(tree)

\* the LET at new is the definition at def, as the binder left it, with the arguments of the
\* call under its INITs
InlinedFrom(tr, new, def, callArgs) ==
    LET a == N(tr, new).args
        b == N(bound, def).args
    IN /\ N(tr, new).type = "ASTNODE_LET"
       /\ N(tr, new).name = ""
       /\ Len(a) = Len(b)
       /\ \A k \in 1..Len(a) :
             IF k <= Len(callArgs)
             THEN /\ N(tr, a[k]) = [N(bound, b[k]) EXCEPT !.parent = new, !.args = << callArgs[k] >>]
             ELSE SameTree(tr, a[k], bound, b[k])

\* C30: every named LET the binder created keeps its kind, name, return-type tag, child list
\* and every node of its subtree through the evaluation, and each call is inlined as a copy
\* of that definition as the binder left it, whatever was rewritten in earlier copies.
C30_DefunsUntouched ==
    /\ [](Bound => \A d \in Defuns(bound) : Untouched(tree, d))
    /\ [][Inlining => /\ N(tree, top.idx).eval \in Defuns(bound)
                      /\ InlinedFrom(tree', Len(tree), N(tree, top.idx).eval, N(tree, top.idx).args)]_vars

\* a run has ended in which a function was called twice, and a node made by inlining is
\* now a LITERAL although no definition holds a LITERAL: a copy was rewritten
Calls(tr, d) == {c \in Range(visited) : N(tr, c).type = "ASTNODE_EVAL_FUN" /\ N(tr, c).eval = d}
C30_Witness ==
    /\ FirstRunDone
    /\ \E d \in Defuns(bound) : Cardinality(Calls(tree, d)) >= 2 /\ Untouched(tree, d)
    /\ \A e \in Defuns(bound) : \A i \in Reach(bound, e) : N(bound, i).type # "ASTNODE_LITERAL"
    /\ \E n \in Reach(tree, 0) : n >= Len(bound) /\ N(tree, n).type = "ASTNODE_LITERAL"
====
